---------------------------- MODULE Spec2Model ----------------------------
(***************************************************************************)
(* Review-generation pipeline of the AI code reviewer:                     *)
(*   POST /api/review  (src/server/routes.ts)                              *)
(*   analyzeCode / callOpenAIWithRetry / generateFallbackResult            *)
(*   performBasicAnalysis / mergeAnalysisResults  (src/server/ai.ts)       *)
(*   analyzeCodeWithHuggingFace / callHuggingFaceWithRetry                 *)
(*                                         (src/server/huggingface.ts)     *)
(*   the same with createSyntheticResultFromText (src/unnamed/part_008)    *)
(*                                                                         *)
(* Strings that the code inspects character by character (the submitted    *)
(* code, the language name) are sequences of one-character strings.        *)
(* Literal message texts, which the code only compares for equality, are   *)
(* TLA+ strings.  An optional field (suggestion?: string) is a sequence of *)
(* length 0 (absent) or 1 (present).                                       *)
(***************************************************************************)
EXTENDS Integers, Sequences, FiniteSets, TLC

(***************************************************************************)
(* JavaScript string primitives used by the analyzers                      *)
(***************************************************************************)

\* White space as String.prototype.trim and the regex class \s see it
\* (restricted to the characters the model's alphabet contains).
WhiteSpace == {" ", "\t", "\n", "\r", "\f"}

\* The regex class \w.
WordChars ==
  {"a","b","c","d","e","f","g","h","i","j","k","l","m","n","o","p","q","r","s","t","u","v","w","x","y","z",
   "A","B","C","D","E","F","G","H","I","J","K","L","M","N","O","P","Q","R","S","T","U","V","W","X","Y","Z",
   "0","1","2","3","4","5","6","7","8","9","_"}

UpperCase == <<"A","B","C","D","E","F","G","H","I","J","K","L","M","N","O","P","Q","R","S","T","U","V","W","X","Y","Z">>

LowerCase == <<"a","b","c","d","e","f","g","h","i","j","k","l","m","n","o","p","q","r","s","t","u","v","w","x","y","z">>

ToLowerChar(c) ==
  IF \E i \in 1..Len(UpperCase) : UpperCase[i] = c
  THEN LowerCase[CHOOSE i \in 1..Len(UpperCase) : UpperCase[i] = c]
  ELSE c

\* A comparison of the language that skips toLowerCase
ToLowerCaseSkipped(s) == s

\* String.prototype.toLowerCase
ToLowerCase(s) == [i \in 1..Len(s) |-> ToLowerChar(s[i])]

\* 1-based index of the first occurrence of sub in s, 0 when there is none
IndexOf(s, sub) ==
  LET hits == {i \in 1..(Len(s) - Len(sub) + 1) : SubSeq(s, i, i + Len(sub) - 1) = sub}
  IN  IF hits = {} THEN 0 ELSE CHOOSE i \in hits : \A j \in hits : i <= j

\* String.prototype.includes
Includes(s, sub) == IndexOf(s, sub) # 0

\* String.prototype.replace with a string pattern: the first occurrence only
Replace(s, sub, rep) ==
  LET i == IndexOf(s, sub)
  IN  IF i = 0 THEN s
      ELSE SubSeq(s, 1, i - 1) \o rep \o SubSeq(s, i + Len(sub), Len(s))

\* String.prototype.trimEnd
TrimEnd(s) ==
  LET keep == {i \in 1..Len(s) : s[i] \notin WhiteSpace}
  IN  IF keep = {} THEN <<>>
      ELSE SubSeq(s, 1, CHOOSE i \in keep : \A j \in keep : j <= i)

\* String.prototype.trimStart
TrimStart(s) ==
  LET keep == {i \in 1..Len(s) : s[i] \notin WhiteSpace}
  IN  IF keep = {} THEN <<>>
      ELSE SubSeq(s, CHOOSE i \in keep : \A j \in keep : i <= j, Len(s))

\* An empty check on the code as submitted, without trim
TrimSkipped(s) == s

\* String.prototype.trim
Trim(s) == TrimStart(TrimEnd(s))

\* String.prototype.split on a one-character separator
RECURSIVE Split(_, _)
Split(s, sep) ==
  LET i == IndexOf(s, <<sep>>)
  IN  IF i = 0 THEN <<s>>
      ELSE <<SubSeq(s, 1, i - 1)>> \o Split(SubSeq(s, i + 1, Len(s)), sep)

\* Concatenation of a sequence of sequences
RECURSIVE Flatten(_)
Flatten(ss) == IF ss = <<>> THEN <<>> ELSE Head(ss) \o Flatten(Tail(ss))

\* s repeated n times
RECURSIVE Repeat(_, _)
Repeat(s, n) == IF n <= 0 THEN <<>> ELSE s \o Repeat(s, n - 1)

(***************************************************************************)
(* Comments (findings)                                                     *)
(***************************************************************************)

CommentTypes == {"error", "warning", "suggestion", "info"}

\* A CodeComment without a suggested replacement
Finding(l, t, ty) == [line |-> l, text |-> t, type |-> ty, suggestion |-> <<>>]

\* A CodeComment that carries a suggested replacement line
FindingWith(l, t, ty, s) == [line |-> l, text |-> t, type |-> ty, suggestion |-> <<s>>]

(***************************************************************************)
(* Pattern Analyzer: the language rule-sets                                *)
(***************************************************************************)

\* The longest line analyzeGeneric accepts without a finding
LONG_LINE == 100

jsLine(line, index) ==
  (IF Includes(line, <<"c","o","n","s","o","l","e",".","l","o","g">>)
   THEN <<Finding(index + 1,
                  "Consider removing debug console.log statements in production code",
                  "warning")>>
   ELSE <<>>)
  \o
  (IF Includes(line, <<"v","a","r"," ">>)
   THEN <<FindingWith(index + 1,
                      "Consider using 'let' or 'const' instead of 'var'",
                      "suggestion",
                      Replace(line, <<"v","a","r"," ">>, <<"c","o","n","s","t"," ">>))>>
   ELSE <<>>)
  \o
  (IF Includes(line, <<" ","=","="," ">>) /\ ~Includes(line, <<" ","=","=","="," ">>)
   THEN <<FindingWith(index + 1,
                      "Using loose equality (==) may lead to unexpected behavior. Consider using strict equality (===)",
                      "warning",
                      Replace(line, <<" ","=","="," ">>, <<" ","=","=","="," ">>))>>
   ELSE <<>>)

\* Findings numbered by the zero-based index of the line
analyzeJavaScriptZeroBased(lines) ==
  Flatten([i \in 1..Len(lines) |-> jsLine(lines[i], i - 2)])

analyzeJavaScript(lines) == Flatten([i \in 1..Len(lines) |-> jsLine(lines[i], i - 1)])

\* /def\s+\w+\([^)]*=\s*\[\s*\][^)]*\)/ matches somewhere in line
MatchesMutableDefault(line) ==
  LET n == Len(line)
      AllIn(a, b, S) == \A k \in a..b : line[k] \in S
      NoneIs(a, b, c) == \A k \in a..b : line[k] # c
  IN  \E d \in 1..(n - 2) :
        /\ SubSeq(line, d, d + 2) = <<"d","e","f">>
        /\ \E w \in (d + 4)..n :
              /\ AllIn(d + 3, w - 1, WhiteSpace)
              /\ \E p \in (w + 1)..n :
                    /\ AllIn(w, p - 1, WordChars) /\ line[p] = "("
                    /\ \E e \in (p + 1)..n :
                          /\ NoneIs(p + 1, e - 1, ")") /\ line[e] = "="
                          /\ \E lb \in (e + 1)..n :
                                /\ AllIn(e + 1, lb - 1, WhiteSpace) /\ line[lb] = "["
                                /\ \E rb \in (lb + 1)..n :
                                      /\ AllIn(lb + 1, rb - 1, WhiteSpace) /\ line[rb] = "]"
                                      /\ \E cl \in (rb + 1)..n :
                                            NoneIs(rb + 1, cl - 1, ")") /\ line[cl] = ")"

\* /['"].*['"] \+ / matches somewhere in line ( . matches no line terminator)
MatchesQuotedConcat(line) ==
  LET n == Len(line)
      Quotes == {"'", "\""}
  IN  \E j \in 2..(n - 3) :
        /\ line[j] \in Quotes
        /\ SubSeq(line, j + 1, j + 3) = <<" ","+"," ">>
        /\ \E i \in 1..(j - 1) :
              /\ line[i] \in Quotes
              /\ \A k \in (i + 1)..(j - 1) : line[k] \notin {"\n", "\r"}

pyLine(line, index) ==
  (IF Includes(line, <<"p","r","i","n","t","(">>)
   THEN <<Finding(index + 1,
                  "Consider using logging instead of print statements in production code",
                  "suggestion")>>
   ELSE <<>>)
  \o
  (IF MatchesMutableDefault(line)
   THEN <<Finding(index + 1,
                  "Using mutable default arguments (empty list) can lead to unexpected behavior",
                  "warning")>>
   ELSE <<>>)
  \o
  (IF Includes(line, <<" ","+"," ">>) /\ MatchesQuotedConcat(line)
   THEN <<Finding(index + 1,
                  "Consider using f-strings for string formatting instead of concatenation",
                  "suggestion")>>
   ELSE <<>>)

analyzePython(lines) == Flatten([i \in 1..Len(lines) |-> pyLine(lines[i], i - 1)])

javaLine(line, index) ==
  (IF Includes(line, <<"S","y","s","t","e","m",".","o","u","t",".","p","r","i","n","t","l","n">>)
   THEN <<Finding(index + 1,
                  "Consider using a logging framework instead of System.out.println in production code",
                  "suggestion")>>
   ELSE <<>>)
  \o
  (IF Includes(line, <<" ","=","="," ","n","u","l","l">>)
   THEN <<Finding(index + 1,
                  "Consider using Optional<> to avoid null checks",
                  "suggestion")>>
   ELSE <<>>)

analyzeJava(lines) == Flatten([i \in 1..Len(lines) |-> javaLine(lines[i], i - 1)])

\* /\w+\s*\*\s*\w+/ matches somewhere in line
MatchesRawPointer(line) ==
  LET n == Len(line)
  IN  \E s \in 2..(n - 1) :
        /\ line[s] = "*"
        /\ \E a \in 1..(s - 1) :
              line[a] \in WordChars /\ \A k \in (a + 1)..(s - 1) : line[k] \in WhiteSpace
        /\ \E b \in (s + 1)..n :
              line[b] \in WordChars /\ \A k \in (s + 1)..(b - 1) : line[k] \in WhiteSpace

cppLine(line, index) ==
  (IF Includes(line, <<"u","s","i","n","g"," ","n","a","m","e","s","p","a","c","e"," ","s","t","d",";">>)
   THEN <<Finding(index + 1,
                  "Avoid using 'using namespace std' in header files as it can lead to name conflicts",
                  "warning")>>
   ELSE <<>>)
  \o
  (IF MatchesRawPointer(line)
   THEN <<Finding(index + 1,
                  "Consider using smart pointers (std::shared_ptr, std::unique_ptr) instead of raw pointers",
                  "suggestion")>>
   ELSE <<>>)

analyzeCpp(lines) == Flatten([i \in 1..Len(lines) |-> cppLine(lines[i], i - 1)])

genericLine(line, index) ==
  (IF Len(line) > LONG_LINE
   THEN <<Finding(index + 1,
                  "Line is very long (over 100 characters). Consider breaking it up for readability",
                  "suggestion")>>
   ELSE <<>>)
  \o
  (IF Len(line) > 0 /\ line[Len(line)] \in WhiteSpace
   THEN <<FindingWith(index + 1, "Line contains trailing whitespace", "info", TrimEnd(line))>>
   ELSE <<>>)

\* A generic rule-set that numbers the lines from 2
analyzeGenericFromTwo(lines) == Flatten([i \in 1..Len(lines) |-> genericLine(lines[i], i)])

analyzeGeneric(lines) == Flatten([i \in 1..Len(lines) |-> genericLine(lines[i], i - 1)])

\* performBasicAnalysis(submission): the Pattern Analyzer
performBasicAnalysis(submission) ==
  LET lines == Split(submission.code, "\n")
      lang  == ToLowerCase(submission.language)
  IN  IF Trim(submission.code) = <<>>
      THEN <<Finding(1, "Code is empty", "error")>>
      ELSE IF lang \in {<<"j","a","v","a","s","c","r","i","p","t">>,
                        <<"t","y","p","e","s","c","r","i","p","t">>}
           THEN analyzeJavaScript(lines)
      ELSE IF lang = <<"p","y","t","h","o","n">> THEN analyzePython(lines)
      ELSE IF lang = <<"j","a","v","a">> THEN analyzeJava(lines)
      ELSE IF lang = <<"c","+","+">> THEN analyzeCpp(lines)
      ELSE analyzeGeneric(lines)

(***************************************************************************)
(* Values.  What JSON.parse returns is a record with a kind; an object     *)
(* carries the properties it has as record fields, so a property the       *)
(* provider left out is a field that is not in the record's DOMAIN.        *)
(***************************************************************************)

JsNull == [kind |-> "null"]

JsNumber(n) == [kind |-> "number", num |-> n]

Has(v, prop) == prop \in DOMAIN v

\* JavaScript truthiness, as tested by `if (openAIResult)`
Truthy(v) ==
  CASE v.kind = "null"   -> FALSE
    [] v.kind = "number" -> v.num # 0
    [] OTHER             -> TRUE

MetricNames == {"overall", "maintainability", "performance", "security"}

\* The ReviewResult type of shared/schema.ts: the three required parts
WellFormedResult(v) ==
  /\ v.kind = "object"
  /\ Has(v, "metrics") /\ Has(v, "comments") /\ Has(v, "issues")
  /\ MetricNames \subseteq DOMAIN v.metrics
  /\ \A m \in MetricNames : {"grade", "score"} \subseteq DOMAIN v.metrics[m]
  /\ {"critical", "warnings", "info", "types"} \subseteq DOMAIN v.issues
  /\ \A i \in 1..Len(v.comments) :
       {"line", "text", "type"} \subseteq DOMAIN v.comments[i]
       /\ v.comments[i].type \in CommentTypes

\* comments.filter(c => pred(c)).length
CountType(comments, types) == Cardinality({i \in 1..Len(comments) : comments[i].type \in types})

(***************************************************************************)
(* Orchestrator: the synthesized static-only result                        *)
(***************************************************************************)

\* A grade rule that tests the "B-" thresholds before the "B+" ones
fallbackGradeReordered(criticalCount, warningCount, totalIssues) ==
  IF criticalCount = 0 /\ warningCount = 0 THEN [grade |-> "A-", score |-> 90]
  ELSE IF criticalCount <= 1 /\ totalIssues <= 5 THEN [grade |-> "B-", score |-> 80]
  ELSE IF criticalCount = 0 /\ warningCount <= 2 THEN [grade |-> "B+", score |-> 85]
  ELSE IF criticalCount >= 3 THEN [grade |-> "D+", score |-> 65]
  ELSE [grade |-> "C", score |-> 70]

\* The grade rule of generateFallbackResult, first match wins
fallbackGrade(criticalCount, warningCount, totalIssues) ==
  IF criticalCount = 0 /\ warningCount = 0 THEN [grade |-> "A-", score |-> 90]
  ELSE IF criticalCount = 0 /\ warningCount <= 2 THEN [grade |-> "B+", score |-> 85]
  ELSE IF criticalCount <= 1 /\ totalIssues <= 5 THEN [grade |-> "B-", score |-> 80]
  ELSE IF criticalCount >= 3 THEN [grade |-> "D+", score |-> 65]
  ELSE [grade |-> "C", score |-> 70]

generateFallbackResult(comments, language) ==
  LET criticalCount == CountType(comments, {"error"})
      warningCount  == CountType(comments, {"warning"})
      infoCount     == CountType(comments, {"info", "suggestion"})
      totalIssues   == criticalCount + warningCount + infoCount
      overall       == fallbackGrade(criticalCount, warningCount, totalIssues)
  IN  [kind    |-> "object",
       metrics |-> [overall         |-> overall,
                    maintainability |-> overall,
                    performance     |-> [grade |-> "C+", score |-> 75],
                    security        |-> [grade |-> "C", score |-> 70]],
       comments |-> comments,
       issues |-> [critical |-> criticalCount,
                   warnings |-> warningCount,
                   info     |-> infoCount,
                   types    |-> << [name        |-> "Analysis Limitations",
                                    description |-> <<"Limited analysis due to API constraints. Only basic issues detected.">>,
                                    severity    |-> "medium"],
                                   [name        |-> "Static Analysis",
                                    description |-> <<"Basic ", language, " code analysis performed without semantic understanding.">>,
                                    severity    |-> "medium"] >>],
       keyImprovements |-> <<"Fix identified syntax errors",
                             "Address style inconsistencies",
                             "Review code structure",
                             "Consider security implications",
                             "Ensure proper error handling">>]

(***************************************************************************)
(* Provider Client, Hugging Face, the version that tolerates free text     *)
(* (src/unnamed/part_008): the text handed to JSON.parse and               *)
(* createSyntheticResultFromText                                           *)
(***************************************************************************)

\* String.prototype.split on a separator of any length
RECURSIVE SplitOn(_, _)
SplitOn(s, sub) ==
  LET i == IndexOf(s, sub)
  IN  IF i = 0 THEN <<s>>
      ELSE <<SubSeq(s, 1, i - 1)>> \o SplitOn(SubSeq(s, i + Len(sub), Len(s)), sub)

\* The grave accent U+0060, the character of a markdown fence.  It stands in
\* the character sequences as this one element.
Tick == "grave"

Fence == <<Tick, Tick, Tick>>

JsonFence == Fence \o <<"j","s","o","n">>

\* jsonText: the generated text trimmed, or the content of its first markdown
\* code block
ExtractJsonText(generated) ==
  LET trimmed == Trim(generated)
  IN  IF Includes(trimmed, JsonFence)
      THEN Trim(SplitOn(SplitOn(trimmed, JsonFence)[2], Fence)[1])
      ELSE IF Includes(trimmed, Fence)
      THEN Trim(SplitOn(SplitOn(trimmed, Fence)[2], Fence)[1])
      ELSE trimmed

\* The longest unparsable text for which no synthetic result is attempted
MIN_SYNTHETIC_TEXT == 100

\* The longest trimmed line that is dropped as too short for a comment
MIN_COMMENT_TEXT == 20

\* An extraction attempted from a text of MIN_SYNTHETIC_TEXT characters on
ShouldSynthesizeInclusive(jsonText) == Len(jsonText) >= MIN_SYNTHETIC_TEXT

\* if (jsonText.length > 100)
ShouldSynthesize(jsonText) == Len(jsonText) > MIN_SYNTHETIC_TEXT

\* The text looks like source code
isCodeResponse(text) ==
  \/ Includes(text, <<"i","m","p","o","r","t"," ">>)
  \/ Includes(text, <<"f","u","n","c","t","i","o","n"," ">>)
  \/ Includes(text, <<"c","l","a","s","s"," ">>)
  \/ Includes(text, <<"c","o","n","s","t"," ">>)
  \/ Includes(text, <<"l","e","t"," ">>)

\* Keyword matching that tests the warning keywords before the error keywords
syntheticTypeWarningFirst(trimmedLine) ==
  LET lower == ToLowerCase(trimmedLine)
  IN  IF \/ Includes(lower, <<"w","a","r","n","i","n","g">>)
         \/ Includes(lower, <<"c","a","u","t","i","o","n">>)
         \/ Includes(lower, <<"c","o","n","s","i","d","e","r">>)
      THEN "warning"
      ELSE IF \/ Includes(lower, <<"e","r","r","o","r">>)
              \/ Includes(lower, <<"c","r","i","t","i","c","a","l">>)
              \/ Includes(lower, <<"s","e","v","e","r","e">>)
      THEN "error"
      ELSE IF \/ Includes(lower, <<"s","u","g","g","e","s","t">>)
              \/ Includes(lower, <<"r","e","c","o","m","m","e","n","d">>)
              \/ Includes(lower, <<"i","m","p","r","o","v","e","m","e","n","t">>)
      THEN "suggestion"
      ELSE "info"

\* The comment type that keyword matching gives a trimmed line
syntheticType(trimmedLine) ==
  LET lower == ToLowerCase(trimmedLine)
  IN  IF \/ Includes(lower, <<"e","r","r","o","r">>)
         \/ Includes(lower, <<"c","r","i","t","i","c","a","l">>)
         \/ Includes(lower, <<"s","e","v","e","r","e">>)
      THEN "error"
      ELSE IF \/ Includes(lower, <<"w","a","r","n","i","n","g">>)
              \/ Includes(lower, <<"c","a","u","t","i","o","n">>)
              \/ Includes(lower, <<"c","o","n","s","i","d","e","r">>)
      THEN "warning"
      ELSE IF \/ Includes(lower, <<"s","u","g","g","e","s","t">>)
              \/ Includes(lower, <<"r","e","c","o","m","m","e","n","d">>)
              \/ Includes(lower, <<"i","m","p","r","o","v","e","m","e","n","t">>)
      THEN "suggestion"
      ELSE "info"

\* The comment, if any, that the loop pushes for the line numbered currentLine.
\* The text of such a comment is the trimmed line, a sequence of characters.
syntheticLine(line, currentLine) ==
  LET trimmedLine == Trim(line)
  IN  IF trimmedLine # <<>> /\ Len(trimmedLine) > MIN_COMMENT_TEXT
      THEN <<Finding(currentLine, trimmedLine, syntheticType(trimmedLine))>>
      ELSE <<>>

\* The comments collected before the counting
syntheticComments(text) ==
  IF isCodeResponse(text)
  THEN <<Finding(1, "The model provided an improved version of your code instead of a detailed analysis.",
                 "info")>>
  ELSE LET lines == Split(text, "\n")
       IN  Flatten([i \in 1..Len(lines) |-> syntheticLine(lines[i], i)])

\* The comment returned when no comment was collected
DefaultSyntheticComment ==
  Finding(1, "The analysis model provided a non-standard response. Basic analysis has been provided instead.",
          "info")

syntheticGrade(isCode, criticalCount, warningCount) ==
  IF isCode THEN [grade |-> "B+", score |-> 85]
  ELSE IF criticalCount > 2 THEN [grade |-> "C+", score |-> 75]
  ELSE [grade |-> "B-", score |-> 80]

createSyntheticResultFromText(text, modelName) ==
  LET comments      == syntheticComments(text)
      isCode        == isCodeResponse(text)
      criticalCount == CountType(comments, {"error"})
      warningCount  == CountType(comments, {"warning"})
      infoCount     == CountType(comments, {"info", "suggestion"})
      overall       == syntheticGrade(isCode, criticalCount, warningCount)
      lower         == [grade |-> overall.grade, score |-> overall.score - 5]
      result ==
        [kind    |-> "object",
         metrics |-> [overall         |-> overall,
                      maintainability |-> overall,
                      performance     |-> lower,
                      security        |-> lower],
         comments |-> IF Len(comments) > 0 THEN comments ELSE <<DefaultSyntheticComment>>,
         issues |-> [critical |-> criticalCount,
                     warnings |-> warningCount,
                     info     |-> infoCount,
                     types    |-> << [name        |-> "Model Response Issue",
                                      description |-> <<"The ", modelName,
                                                        " model didn't return a valid JSON response. Limited analysis available.">>,
                                      severity    |-> "medium"] >>],
         keyImprovements |->
           IF isCode
           THEN <<"Improved code structure", "Enhanced readability", "Fixed potential issues">>
           ELSE <<"Consider security best practices", "Improve error handling",
                  "Enhance code organization">>]
  IN  IF isCode
      THEN [p \in DOMAIN result \cup {"improvedCode"} |->
              IF p = "improvedCode" THEN text ELSE result[p]]
      ELSE result

(***************************************************************************)
(* Result Normalizer: mergeAnalysisResults                                 *)
(***************************************************************************)

\* A sort that is not stable: it puts a comment before the comments of its line
\* that were pushed before it
RECURSIVE SortByLineUnstable(_)
SortByLineUnstable(cs) ==
  IF cs = <<>> THEN <<>>
  ELSE LET rest == SortByLineUnstable(SubSeq(cs, 1, Len(cs) - 1))
           last == cs[Len(cs)]
           k    == Cardinality({i \in 1..Len(rest) : rest[i].line < last.line})
       IN  SubSeq(rest, 1, k) \o <<last>> \o SubSeq(rest, k + 1, Len(rest))

\* A merge that returns the comments in the order of the pushes
SortByLineSkipped(cs) == cs

\* Array.prototype.sort((a, b) => a.line - b.line): a stable sort by line
RECURSIVE SortByLine(_)
SortByLine(cs) ==
  IF cs = <<>> THEN <<>>
  ELSE LET rest == SortByLine(SubSeq(cs, 1, Len(cs) - 1))
           last == cs[Len(cs)]
           k    == Cardinality({i \in 1..Len(rest) : rest[i].line <= last.line})
       IN  SubSeq(rest, 1, k) \o <<last>> \o SubSeq(rest, k + 1, Len(rest))

\* A dedup that looks at the line alone
IsDuplicateByLine(aiComments, comment) ==
  \E i \in 1..Len(aiComments) : aiComments[i].line = comment.line

\* A dedup that keeps the comment objects in the sets and so compares
\* identities: a static comment is never the object of an AI comment
IsDuplicateByIdentity(aiComments, comment) == FALSE

\* commentsByLine.has(line) && commentsByLine.get(line).has(text), on the map
\* built from the AI result's comments before any static comment is added
IsDuplicate(aiComments, comment) ==
  \E i \in 1..Len(aiComments) :
    aiComments[i].line = comment.line /\ aiComments[i].text = comment.text

\* The static comments that the forEach pushes, in order
AddedComments(aiComments, staticComments) ==
  LET idx == {i \in 1..Len(staticComments) : ~IsDuplicate(aiComments, staticComments[i])}
      RECURSIVE Pick(_)
      Pick(i) == IF i > Len(staticComments) THEN <<>>
                 ELSE (IF i \in idx THEN <<staticComments[i]>> ELSE <<>>) \o Pick(i + 1)
  IN  Pick(1)

\* The issues counters after the pushes: error -> critical, warning -> warnings,
\* info -> info; no branch counts a suggestion
BumpIssues(issues, added) ==
  [issues EXCEPT !.critical = @ + CountType(added, {"error"}),
                 !.warnings = @ + CountType(added, {"warning"}),
                 !.info     = @ + CountType(added, {"info"})]

\* mergeAnalysisResults throws a TypeError: aiResult.comments is undefined, or
\* aiResult.issues is undefined when a counter is to be incremented
MergeThrows(aiResult, staticComments) ==
  \/ ~Has(aiResult, "comments")
  \/ /\ ~Has(aiResult, "issues")
     /\ CountType(AddedComments(aiResult.comments, staticComments),
                  {"error", "warning", "info"}) > 0

\* A merge that grades the result anew once it has added an error
mergeRegrading(aiResult, staticComments) ==
  LET added  == AddedComments(aiResult.comments, staticComments)
      pushed == [aiResult EXCEPT !.comments = SortByLine(@ \o added),
                                 !.issues = BumpIssues(@, added)]
  IN  IF CountType(added, {"error"}) > 0
      THEN [pushed EXCEPT !.metrics.overall = [grade |-> "C", score |-> 70]]
      ELSE pushed

\* mergeAnalysisResults(aiResult, staticComments), when it returns
mergeAnalysisResults(aiResult, staticComments) ==
  LET added  == AddedComments(aiResult.comments, staticComments)
      pushed == [aiResult EXCEPT !.comments = SortByLine(@ \o added)]
  IN  IF Has(aiResult, "issues")
      THEN [pushed EXCEPT !.issues = BumpIssues(@, added)]
      ELSE pushed

(***************************************************************************)
(* Program constants                                                       *)
(***************************************************************************)

OPENAI_MODEL == "gpt-4o"

FALLBACK_MODEL == "gpt-3.5-turbo"

HF_MODEL == "meta-llama/Llama-2-70b-chat-hf"

FALLBACK_HF_MODEL == "codellama/CodeLlama-34b-Instruct-hf"

MAX_RETRIES == 2

RETRY_DELAY == 1000

(***************************************************************************)
(* Inputs: request bodies                                                  *)
(***************************************************************************)

JavaScript == <<"J","a","v","a","S","c","r","i","p","t">>

TypeScript == <<"T","y","p","e","S","c","r","i","p","t">>

Python == <<"P","y","t","h","o","n">>

Java == <<"J","a","v","a">>

Cpp == <<"C","+","+">>

Go == <<"G","o">>

\* var x = 1;\nif (x == 1) { console.log(x); }
CodeJs ==
  <<"v","a","r"," ","x"," ","="," ","1",";","\n","i","f"," ","(","x"," ","=","="," ","1",")"," ",
    "{"," ","c","o","n","s","o","l","e",".","l","o","g","(","x",")",";"," ","}">>

\* def f(a=[]):\n  print('a' + b)
CodePy ==
  <<"d","e","f"," ","f","(","a","=","[","]",")",":","\n"," "," ","p","r","i","n","t","(","'","a","'"," ","+"," ","b",")">>

\* if (p == null) System.out.println(p);
CodeJava ==
  <<"i","f"," ","(","p"," ","=","="," ","n","u","l","l",")"," ","S","y","s","t","e","m",".","o","u","t",".",
    "p","r","i","n","t","l","n","(","p",")",";">>

\* using namespace std;\nint *p;
CodeCpp ==
  <<"u","s","i","n","g"," ","n","a","m","e","s","p","a","c","e"," ","s","t","d",";","\n","i","n","t"," ","*","p",";">>

\* x = 1 \ny   (the first line ends in a space)
CodeTrailing == <<"x"," ","="," ","1"," ","\n","y">>

\* a line of LONG_LINE + 1 characters after a short one
CodeLong == <<"y","\n">> \o Repeat(<<"a">>, LONG_LINE + 1)

\* white space only
CodeBlank == <<" ","\n","\t">>

Body(language, code) == [language |-> language, reviewType |-> "Comprehensive", code |-> code]

\* The request bodies of the model.  The optional GitLab fields are absent
\* from a body that does not carry them; the schema takes any number as an
\* id, 0 included.
RequestBodies ==
  { Body(JavaScript, CodeJs),
    [language |-> JavaScript, reviewType |-> "Security Focus", code |-> CodeJs,
     gitlabProjectId |-> 7, gitlabMergeRequestId |-> 3, gitlabCommitSha |-> "abc123"],
    Body(TypeScript, CodeJava),
    Body(Python, CodePy),
    Body(Java, CodeJava),
    Body(Cpp, CodeCpp),
    Body(Go, CodeTrailing),
    [language |-> Go, reviewType |-> "Syntax Only", code |-> CodeLong, gitlabProjectId |-> 7],
    [language |-> Python, reviewType |-> "Comprehensive", code |-> CodePy,
     gitlabProjectId |-> 0, gitlabMergeRequestId |-> 3],
    Body(JavaScript, CodeBlank),
    Body(JavaScript, <<>>),
    Body(<<>>, CodeJs) }

\* codeSubmissionSchema.safeParse(body).success: the three strings are non-empty
ValidSubmission(body) ==
  Len(body.language) >= 1 /\ Len(body.reviewType) >= 1 /\ Len(body.code) >= 1

(***************************************************************************)
(* Inputs: what a provider call can end in                                 *)
(***************************************************************************)

\* The longest comments list of a provider answer
MaxAiComments == 2

ConsoleLogText == "Consider removing debug console.log statements in production code"

\* Comments a provider may send: one identical in line and text to the
\* console.log finding of CodeJs, one with that text on another line, one
\* with another text on that line
AiCommentPool ==
  { Finding(2, ConsoleLogText, "warning"),
    Finding(1, ConsoleLogText, "warning"),
    Finding(2, "Possible null dereference", "error") }

RECURSIVE SeqsUpTo(_, _)
SeqsUpTo(S, n) ==
  IF n = 0 THEN {<<>>}
  ELSE LET shorter == SeqsUpTo(S, n - 1)
       IN  shorter \cup {Append(s, x) : s \in {q \in shorter : Len(q) = n - 1}, x \in S}

AiMetrics ==
  [overall         |-> [grade |-> "B", score |-> 82],
   maintainability |-> [grade |-> "B+", score |-> 85],
   performance     |-> [grade |-> "A-", score |-> 90],
   security        |-> [grade |-> "C", score |-> 70, change |-> -5]]

AiIssueTypes == << [name |-> "Style", description |-> <<"Style issues">>, severity |-> "low"] >>

\* A complete answer whose issues counters agree with its comments
AiResult(comments) ==
  [kind |-> "object",
   metrics |-> AiMetrics,
   comments |-> comments,
   improvedCode |-> "improved",
   keyImprovements |-> <<"Use strict equality">>,
   issues |-> [critical |-> CountType(comments, {"error"}),
               warnings |-> CountType(comments, {"warning"}),
               info     |-> CountType(comments, {"info", "suggestion"}),
               types    |-> AiIssueTypes]]

\* Answers that parse as JSON: complete results, a complete result whose
\* counters are stale, objects that lack required parts, and values that are
\* no objects
ProviderValues ==
  {AiResult(cs) : cs \in SeqsUpTo(AiCommentPool, MaxAiComments)}
  \cup
  { [AiResult(<<Finding(2, "Possible null dereference", "error")>>) EXCEPT !.issues.critical = 0],
    [kind |-> "object"],
    [kind |-> "object", comments |-> <<>>],
    [kind |-> "object", metrics |-> AiMetrics, comments |-> <<Finding(2, ConsoleLogText, "warning")>>],
    JsNull,
    JsNumber(0),
    JsNumber(42) }

\* Errors the API client throws: the HTTP status and the API's error code
ApiErrors ==
  { [status |-> 429, code |-> "rate_limit_exceeded"],
    [status |-> 429, code |-> "insufficient_quota"],
    [status |-> 403, code |-> "insufficient_quota"],
    [status |-> 401, code |-> "invalid_api_key"],
    [status |-> 500, code |-> "server_error"] }

\* The outcome of one provider call: the client throws; the answer has no
\* content; the content is no JSON; the content parses to a value
Outcomes ==
  {[type |-> "throw", error |-> e] : e \in ApiErrors}
  \cup {[type |-> "empty"], [type |-> "unparsable"]}
  \cup {[type |-> "json", value |-> v] : v \in ProviderValues}

\* Texts of a model that JSON.parse rejects
TextShort ==
  <<"S","o","r","r","y",","," ","I"," ","c","a","n","n","o","t"," ","r","e","v","i","e","w"," ",
    "t","h","i","s",".">>

OkLine == <<"o","k"," ","l","i","n","e","\n">>

\* Thirteen short lines: longer than MIN_SYNTHETIC_TEXT, no line longer than
\* MIN_COMMENT_TEXT, no token of source code
TextNothingUsable == Repeat(OkLine, 13)

\* A text of exactly MIN_SYNTHETIC_TEXT characters
TextAtThreshold == Repeat(OkLine, 12) \o <<"o","k","a","y">>

\* A long text whose first line reports an error
TextWithFinding ==
  <<"T","h","e","r","e"," ","i","s"," ","a"," ","c","r","i","t","i","c","a","l"," ","e","r","r","o","r"," ",
    "i","n"," ","t","h","e"," ","l","o","o","p","\n">> \o Repeat(OkLine, 9) \o <<"e","n","d">>

\* A long text that is source code
TextOfCode ==
  <<"f","u","n","c","t","i","o","n"," ","f","(",")"," ","{"," ","r","e","t","u","r","n"," ","1",";"," ","}","\n">>
    \o Repeat(OkLine, 10)

\* A long text whose markdown code block holds a short text
TextFenced ==
  Fence \o <<"\n","n","o"," ","j","s","o","n"," ","h","e","r","e","\n">> \o Fence \o <<"\n">>
    \o Repeat(OkLine, 12)

ModelTexts ==
  {TextShort, TextNothingUsable, TextAtThreshold, TextWithFinding, TextOfCode, TextFenced}

\* The outcomes of a call in which the model sent such a text
TextOutcomes == {[type |-> "text", text |-> x] : x \in ModelTexts}

\* The outcome as the call log keeps it: without the parsed value
OutcomeTag(o) == IF o.type = "json" THEN [type |-> "json"] ELSE o

\* The error the catch block of the provider client sees: the client's error,
\* or the Error thrown for empty or unparsable content, which has no status
\* and no code
CaughtError(o) ==
  CASE o.type = "throw"      -> o.error
    [] o.type = "empty"      -> [message |-> "Empty response"]
    [] o.type = "unparsable" -> [message |-> "Invalid JSON"]
    [] o.type = "text"       -> [message |-> "Invalid JSON response"]

(***************************************************************************)
(* State                                                                   *)
(***************************************************************************)

VARIABLES
  requests,                \* the concurrent requests to the routes that write to
                           \* MemStorage, each with its position and its locals
  generatedText,           \* the text of a model handed to a direct
                           \* createSyntheticResultFromText
  analyzerThrows,          \* performBasicAnalysis throws on this submission: its
                           \* comments.push(...findings) raises a RangeError once the
                           \* findings outnumber the arguments the engine accepts
  entry,                   \* the entry point this run exercises: "route" is POST /api/review,
                           \* "hf" is analyzeCodeWithHuggingFace called on its own, "hf2"
                           \* the same in the version with createSyntheticResultFromText;
                           \* "merge", "fallback", "analyzer" and "synth" are direct calls
                           \* of mergeAnalysisResults, generateFallbackResult,
                           \* performBasicAnalysis and createSyntheticResultFromText;
                           \* "store" is the server with the requests of `requests`
  submission,              \* the request body
  pc,                      \* where the request is: "start", "api" (a provider call is in
                           \* flight), "sleep" (the retry delay runs), "client_done" (the
                           \* provider client has returned), "analyzed", "stored", "done"
  staticAnalysisComments,  \* routes.ts: the Pattern Analyzer's findings
  currentModel,            \* the model of the provider call in flight
  retryCount,              \* the retryCount argument of that call
  log,                     \* the provider calls, their outcomes and the delays, in order
  clientResult,            \* what callOpenAIWithRetry / callHuggingFaceWithRetry returned
  aiAnalysisResult,        \* what analyzeCode / analyzeCodeWithHuggingFace returned
  finalResult,             \* routes.ts: what mergeAnalysisResults returned
  reviews,                 \* MemStorage.reviews
  reviewIdCounter,         \* MemStorage.reviewIdCounter
  response                 \* the HTTP response; status 0 while none is sent

vars ==
  <<requests, generatedText, analyzerThrows, entry, submission, pc, staticAnalysisComments, currentModel, retryCount, log,
    clientResult, aiAnalysisResult, finalResult, reviews, reviewIdCounter, response>>

NoResponse == [status |-> 0]

CallEvent(model, retry) == [ev |-> "call", model |-> model, retry |-> retry]

SleepEvent(ms) == [ev |-> "sleep", ms |-> ms]

ResponseEvent(model, retry, o) ==
  [ev |-> "response", model |-> model, retry |-> retry, outcome |-> OutcomeTag(o)]

Init ==
  /\ requests = <<>>
  /\ generatedText = <<>>
  /\ analyzerThrows = FALSE
  /\ entry \in {"route", "hf"}
  /\ submission \in RequestBodies
  /\ entry = "hf" => ValidSubmission(submission)
  /\ pc = "start"
  /\ staticAnalysisComments = <<>>
  /\ currentModel = ""
  /\ retryCount = 0
  /\ log = <<>>
  /\ clientResult = JsNull
  /\ aiAnalysisResult = JsNull
  /\ finalResult = JsNull
  /\ reviews = <<>>
  /\ reviewIdCounter = 1
  /\ response = NoResponse

(***************************************************************************)
(* Provider Client, OpenAI: callOpenAIWithRetry                            *)
(***************************************************************************)

isRateLimitError(error) == Has(error, "status") /\ error.status = 429

isQuotaError(error) == Has(error, "code") /\ error.code = "insufficient_quota"

\* A retry test that counts the first attempt against the budget
OpenAIShouldRetryOffByOne(count, error) ==
  count + 1 < MAX_RETRIES /\ isRateLimitError(error) /\ ~isQuotaError(error)

\* A retry test that treats a quota error like a rate limit
OpenAIShouldRetryQuota(count, error) == count < MAX_RETRIES /\ isRateLimitError(error)

\* ai.ts: retry the same model after the delay
OpenAIShouldRetry(count, error) ==
  count < MAX_RETRIES /\ isRateLimitError(error) /\ ~isQuotaError(error)

\* A fallback test that forgets which model is in use
OpenAIShouldFallBackAgain(model, error) == isRateLimitError(error) \/ isQuotaError(error)

\* ai.ts: switch to the fallback model
OpenAIShouldFallBack(model, error) ==
  model = OPENAI_MODEL /\ (isRateLimitError(error) \/ isQuotaError(error))

\* A delay that grows with the retry count
RetryDelayGrowing(count) == RETRY_DELAY * (count + 1)

\* The delay slept before a retry
RetryDelay(count) == RETRY_DELAY

\* The fallback of analyzeCode and analyzeCodeWithHuggingFace: the result
\* synthesized from the Pattern Analyzer's findings.  When the analyzer throws,
\* the outer catch runs it again, and the inner catch synthesizes the result
\* from an empty list.
staticOnlyResult(body, throws) ==
  IF throws THEN generateFallbackResult(<<>>, body.language)
  ELSE generateFallbackResult(performBasicAnalysis(body), body.language)

\* A promise that was rejected instead of resolved
Rejected(v) == v.kind = "rejected"

\* A client that rethrows the error once its retry policy is exhausted
GiveUpRethrow(error) == [kind |-> "rejected", error |-> error]

\* The last statement of the catch block of both provider clients: the error
\* is logged and the call resolves with null
GiveUp(error) == JsNull

\* POST /api/review rejects a body that fails validation
RejectInvalid ==
  /\ entry = "route" /\ pc = "start"
  /\ ~ValidSubmission(submission)
  /\ response' = [status |-> 400, body |-> [kind |-> "object", message |-> "validation error"]]
  /\ pc' = "done"
  /\ UNCHANGED <<requests, generatedText, analyzerThrows, entry, submission, staticAnalysisComments, currentModel, retryCount, log,
                 clientResult, aiAnalysisResult, finalResult, reviews, reviewIdCounter>>

\* POST /api/review up to its first await: validation, the Pattern Analyzer,
\* analyzeCode building the prompt and callOpenAIWithRetry issuing the first call.
\* The route calls the Pattern Analyzer inside its own try block: when the
\* analyzer throws, the handler's catch block answers 500.
ReceiveReview ==
  /\ entry = "route" /\ pc = "start"
  /\ ValidSubmission(submission)
  /\ IF analyzerThrows
     THEN /\ response' = [status |-> 500,
                          body |-> [kind |-> "object", message |-> "Failed to review code"]]
          /\ pc' = "done"
          /\ UNCHANGED <<staticAnalysisComments, currentModel, retryCount, log>>
     ELSE /\ staticAnalysisComments' = performBasicAnalysis(submission)
          /\ currentModel' = OPENAI_MODEL
          /\ retryCount' = 0
          /\ log' = Append(log, CallEvent(OPENAI_MODEL, 0))
          /\ pc' = "api"
          /\ UNCHANGED response
  /\ UNCHANGED <<requests, generatedText, analyzerThrows, entry, submission, clientResult, aiAnalysisResult, finalResult,
                 reviews, reviewIdCounter>>

\* callOpenAIWithRetry after the API call settles with outcome o
OpenAISettle(o) ==
  LET seen == Append(log, ResponseEvent(currentModel, retryCount, o))
  IN
  /\ entry = "route" /\ pc = "api"
  /\ IF o.type = "json"
     THEN /\ clientResult' = o.value
          /\ log' = seen
          /\ pc' = "client_done"
          /\ UNCHANGED <<currentModel, retryCount>>
     ELSE LET error == CaughtError(o)
          IN  IF OpenAIShouldRetry(retryCount, error)
              THEN /\ log' = Append(seen, SleepEvent(RetryDelay(retryCount)))
                   /\ pc' = "sleep"
                   /\ UNCHANGED <<currentModel, retryCount, clientResult>>
              ELSE IF OpenAIShouldFallBack(currentModel, error)
              THEN /\ currentModel' = FALLBACK_MODEL
                   /\ retryCount' = 0
                   /\ log' = Append(seen, CallEvent(FALLBACK_MODEL, 0))
                   /\ pc' = "api"
                   /\ UNCHANGED clientResult
              ELSE /\ clientResult' = GiveUp(error)
                   /\ log' = seen
                   /\ pc' = "client_done"
                   /\ UNCHANGED <<currentModel, retryCount>>
  /\ UNCHANGED <<requests, generatedText, analyzerThrows, entry, submission, staticAnalysisComments, aiAnalysisResult, finalResult,
                 reviews, reviewIdCounter, response>>

OpenAIRespond == \E o \in Outcomes : OpenAISettle(o)

\* callOpenAIWithRetry when the retry delay is over: the recursive call
OpenAIRetry ==
  /\ entry = "route" /\ pc = "sleep"
  /\ retryCount' = retryCount + 1
  /\ log' = Append(log, CallEvent(currentModel, retryCount + 1))
  /\ pc' = "api"
  /\ UNCHANGED <<requests, generatedText, analyzerThrows, entry, submission, staticAnalysisComments, currentModel, clientResult,
                 aiAnalysisResult, finalResult, reviews, reviewIdCounter, response>>

(***************************************************************************)
(* Orchestrator: analyzeCode                                               *)
(***************************************************************************)

\* analyzeCode after `await callOpenAIWithRetry`: a truthy result is returned
\* as it is; after null, and in the catch block that a rejection of the await
\* would enter, the result is synthesized from the Pattern Analyzer's findings
AnalyzeCodeResume ==
  /\ entry = "route" /\ pc = "client_done"
  /\ aiAnalysisResult' =
       IF ~Rejected(clientResult) /\ Truthy(clientResult) THEN clientResult
       ELSE staticOnlyResult(submission, analyzerThrows)
  /\ pc' = "analyzed"
  /\ UNCHANGED <<requests, generatedText, analyzerThrows, entry, submission, staticAnalysisComments, currentModel, retryCount, log,
                 clientResult, finalResult, reviews, reviewIdCounter, response>>

(***************************************************************************)
(* POST /api/review after analyzeCode                                      *)
(***************************************************************************)

\* if (submission.gitlabProjectId && submission.gitlabMergeRequestId)
HasGitlabIds(body) ==
  /\ Has(body, "gitlabProjectId") /\ body.gitlabProjectId # 0
  /\ Has(body, "gitlabMergeRequestId") /\ body.gitlabMergeRequestId # 0

\* value ?? null, a null being the empty sequence
OrNull(body, prop) == IF Has(body, prop) THEN <<body[prop]>> ELSE <<>>

gitlabIntegration(body) ==
  [projectId      |-> body.gitlabProjectId,
   mergeRequestId |-> body.gitlabMergeRequestId,
   commitSha      |-> OrNull(body, "gitlabCommitSha"),
   reviewUrl      |-> <<"https://gitlab.com/projects/", body.gitlabProjectId,
                        "/merge_requests/", body.gitlabMergeRequestId>>]

\* The result with the GitLab block set when the body carries both ids
WithGitlab(result, body) ==
  IF HasGitlabIds(body)
  THEN [p \in DOMAIN result \cup {"gitlabIntegration"} |->
          IF p = "gitlabIntegration" THEN gitlabIntegration(body) ELSE result[p]]
  ELSE result

\* MemStorage.createReview: the stored row (createdAt, the wall-clock time of
\* the insert, is left out)
NewReview(id, body, results) ==
  [id |-> id,
   language |-> body.language,
   reviewType |-> body.reviewType,
   code |-> body.code,
   results |-> results,
   userId |-> <<>>,
   gitlabProjectId |-> OrNull(body, "gitlabProjectId"),
   gitlabMergeRequestId |-> OrNull(body, "gitlabMergeRequestId"),
   gitlabCommitSha |-> OrNull(body, "gitlabCommitSha")]

\* POST /api/review after `await analyzeCode`: the merge, the GitLab block and
\* storage.createReview; a TypeError thrown by the merge is caught by the
\* handler's catch block, which answers 500
RouteMergeAndStore ==
  /\ entry = "route" /\ pc = "analyzed"
  /\ IF MergeThrows(aiAnalysisResult, staticAnalysisComments)
     THEN /\ response' = [status |-> 500,
                          body |-> [kind |-> "object", message |-> "Failed to review code"]]
          /\ pc' = "done"
          /\ UNCHANGED <<finalResult, reviews, reviewIdCounter>>
     ELSE LET merged == WithGitlab(mergeAnalysisResults(aiAnalysisResult, staticAnalysisComments),
                                   submission)
              id     == reviewIdCounter
          IN  /\ finalResult' = merged
              /\ reviewIdCounter' = reviewIdCounter + 1
              /\ reviews' = [i \in DOMAIN reviews \cup {id} |->
                               IF i = id THEN NewReview(id, submission, merged) ELSE reviews[i]]
              /\ pc' = "stored"
              /\ UNCHANGED response
  /\ UNCHANGED <<requests, generatedText, analyzerThrows, entry, submission, staticAnalysisComments, currentModel, retryCount, log,
                 clientResult, aiAnalysisResult>>

\* POST /api/review after `await storage.createReview`: the answer
RouteRespond ==
  /\ entry = "route" /\ pc = "stored"
  /\ response' = [status |-> 200, body |-> finalResult]
  /\ pc' = "done"
  /\ UNCHANGED <<requests, generatedText, analyzerThrows, entry, submission, staticAnalysisComments, currentModel, retryCount, log,
                 clientResult, aiAnalysisResult, finalResult, reviews, reviewIdCounter>>

(***************************************************************************)
(* Provider Client, Hugging Face: callHuggingFaceWithRetry and             *)
(* analyzeCodeWithHuggingFace                                              *)
(***************************************************************************)

\* The two versions of the Hugging Face client: "hf" is
\* src/server/huggingface.ts, "hf2" the version with
\* createSyntheticResultFromText
HFEntries == {"hf", "hf2"}

\* A retry test that allows one retry more than MAX_RETRIES
HFShouldRetryOnceMore(count, error) == count <= MAX_RETRIES /\ isRateLimitError(error)

\* huggingface.ts: retry the same model after the delay
HFShouldRetry(count, error) == count < MAX_RETRIES /\ isRateLimitError(error)

\* An orchestrator that races the two models: both calls are issued at once
HFStartRaced ==
  /\ entry \in HFEntries /\ pc = "start"
  /\ currentModel' = HF_MODEL
  /\ retryCount' = 0
  /\ log' = log \o <<CallEvent(HF_MODEL, 0), CallEvent(FALLBACK_HF_MODEL, 0)>>
  /\ pc' = "api"
  /\ UNCHANGED <<requests, generatedText, analyzerThrows, entry, submission, staticAnalysisComments, clientResult,
                 aiAnalysisResult, finalResult, reviews, reviewIdCounter, response>>

\* analyzeCodeWithHuggingFace up to its first await: the first call on HF_MODEL
HFStart ==
  /\ entry \in HFEntries /\ pc = "start"
  /\ currentModel' = HF_MODEL
  /\ retryCount' = 0
  /\ log' = Append(log, CallEvent(HF_MODEL, 0))
  /\ pc' = "api"
  /\ UNCHANGED <<requests, generatedText, analyzerThrows, entry, submission, staticAnalysisComments, clientResult, aiAnalysisResult,
                 finalResult, reviews, reviewIdCounter, response>>

\* callHuggingFaceWithRetry after the API call settles with outcome o.  In the
\* version that tolerates free text, a text that JSON.parse rejects and that
\* is long enough is turned into a synthetic result; in both versions any
\* other rejected text ends in the Error "Invalid JSON response"
HFSettle(o) ==
  LET seen == Append(log, ResponseEvent(currentModel, retryCount, o))
  IN
  /\ entry \in HFEntries /\ pc = "api"
  /\ IF o.type = "json"
     THEN /\ clientResult' = o.value
          /\ log' = seen
          /\ pc' = "client_done"
     ELSE IF o.type = "text" /\ entry = "hf2" /\ ShouldSynthesize(ExtractJsonText(o.text))
     THEN /\ clientResult' = createSyntheticResultFromText(ExtractJsonText(o.text), currentModel)
          /\ log' = seen
          /\ pc' = "client_done"
     ELSE IF HFShouldRetry(retryCount, CaughtError(o))
     THEN /\ log' = Append(seen, SleepEvent(RetryDelay(retryCount)))
          /\ pc' = "sleep"
          /\ UNCHANGED clientResult
     ELSE /\ clientResult' = GiveUp(CaughtError(o))
          /\ log' = seen
          /\ pc' = "client_done"
  /\ UNCHANGED <<requests, generatedText, analyzerThrows, entry, submission, staticAnalysisComments, currentModel, retryCount,
                 aiAnalysisResult, finalResult, reviews, reviewIdCounter, response>>

HFRespond == \E o \in Outcomes : HFSettle(o)

\* callHuggingFaceWithRetry when the retry delay is over: the recursive call
HFRetry ==
  /\ entry \in HFEntries /\ pc = "sleep"
  /\ retryCount' = retryCount + 1
  /\ log' = Append(log, CallEvent(currentModel, retryCount + 1))
  /\ pc' = "api"
  /\ UNCHANGED <<requests, generatedText, analyzerThrows, entry, submission, staticAnalysisComments, currentModel, clientResult,
                 aiAnalysisResult, finalResult, reviews, reviewIdCounter, response>>

\* analyzeCodeWithHuggingFace after an `await callHuggingFaceWithRetry`: return
\* the result, or call the fallback model after the primary returned null, or
\* synthesize the static-only result after both returned null (and in the
\* catch block that a rejection of an await would enter)
HFResume ==
  /\ entry \in HFEntries /\ pc = "client_done"
  /\ IF ~Rejected(clientResult) /\ Truthy(clientResult)
     THEN /\ aiAnalysisResult' = clientResult
          /\ pc' = "done"
          /\ UNCHANGED <<currentModel, retryCount, log>>
     ELSE IF currentModel = HF_MODEL /\ ~Rejected(clientResult)
     THEN /\ currentModel' = FALLBACK_HF_MODEL
          /\ retryCount' = 0
          /\ log' = Append(log, CallEvent(FALLBACK_HF_MODEL, 0))
          /\ pc' = "api"
          /\ UNCHANGED aiAnalysisResult
     ELSE /\ aiAnalysisResult' = staticOnlyResult(submission, analyzerThrows)
          /\ pc' = "done"
          /\ UNCHANGED <<currentModel, retryCount, log>>
  /\ UNCHANGED <<requests, generatedText, analyzerThrows, entry, submission, staticAnalysisComments, clientResult,
                 finalResult, reviews, reviewIdCounter, response>>

Next ==
  \/ RejectInvalid
  \/ ReceiveReview
  \/ OpenAIRespond
  \/ OpenAIRetry
  \/ AnalyzeCodeResume
  \/ RouteMergeAndStore
  \/ RouteRespond
  \/ HFStart
  \/ HFRespond
  \/ HFRetry
  \/ HFResume

Spec == Init /\ [][Next]_vars

\* The same program on a submission of one character and on one that fails
\* validation, under the scheduling of the event loop: every promise that is
\* awaited settles (a provider call ends in one of its outcomes, the timer of
\* the retry delay fires), and a continuation that can run does run
InitLive ==
  /\ requests = <<>>
  /\ generatedText = <<>>
  /\ analyzerThrows = FALSE
  /\ entry \in {"route", "hf"}
  /\ submission \in {Body(Go, <<"x">>), Body(JavaScript, <<>>)}
  /\ entry = "hf" => ValidSubmission(submission)
  /\ pc = "start"
  /\ staticAnalysisComments = <<>>
  /\ currentModel = ""
  /\ retryCount = 0
  /\ log = <<>>
  /\ clientResult = JsNull
  /\ aiAnalysisResult = JsNull
  /\ finalResult = JsNull
  /\ reviews = <<>>
  /\ reviewIdCounter = 1
  /\ response = NoResponse

LiveSpec == InitLive /\ [][Next]_vars /\ WF_vars(Next)

(***************************************************************************)
(* analyzeCodeWithHuggingFace of the version that tolerates free text      *)
(***************************************************************************)

InitSynth ==
  /\ requests = <<>>
  /\ generatedText = <<>>
  /\ analyzerThrows = FALSE
  /\ entry = "hf2"
  /\ submission \in {Body(JavaScript, CodeJs), Body(Go, CodeTrailing)}
  /\ pc = "start"
  /\ staticAnalysisComments = <<>>
  /\ currentModel = ""
  /\ retryCount = 0
  /\ log = <<>>
  /\ clientResult = JsNull
  /\ aiAnalysisResult = JsNull
  /\ finalResult = JsNull
  /\ reviews = <<>>
  /\ reviewIdCounter = 1
  /\ response = NoResponse

HFRespondOrText == \E o \in Outcomes \cup TextOutcomes : HFSettle(o)

NextSynth ==
  \/ HFStart
  \/ HFRespondOrText
  \/ HFRetry
  \/ HFResume

SynthSpec == InitSynth /\ [][NextSynth]_vars

(***************************************************************************)
(* The same entry points on submissions on which the Pattern Analyzer      *)
(* throws.  The route answers before any provider call is made.  The code   *)
(* of a body stands here for a code with more findings than the engine     *)
(* accepts as arguments of one push; the analyzer throws before it returns *)
(* anything, so the characters of the code play no part.                   *)
(***************************************************************************)

InitFault ==
  /\ requests = <<>>
  /\ generatedText = <<>>
  /\ analyzerThrows = TRUE
  /\ entry \in {"route", "hf"}
  /\ submission \in RequestBodies
  /\ entry = "hf" => ValidSubmission(submission)
  /\ pc = "start"
  /\ staticAnalysisComments = <<>>
  /\ currentModel = ""
  /\ retryCount = 0
  /\ log = <<>>
  /\ clientResult = JsNull
  /\ aiAnalysisResult = JsNull
  /\ finalResult = JsNull
  /\ reviews = <<>>
  /\ reviewIdCounter = 1
  /\ response = NoResponse

NextFault ==
  \/ RejectInvalid
  \/ ReceiveReview
  \/ HFStart
  \/ HFRespond
  \/ HFRetry
  \/ HFResume

FaultSpec == InitFault /\ [][NextFault]_vars

(***************************************************************************)
(* mergeAnalysisResults called on its own, on any result and any findings  *)
(***************************************************************************)

\* The longest list of static findings handed to a direct merge
MaxStaticComments == 2

MergeLines == {5, 7}

MergeTexts == {"X", "Y"}

StaticPool == {Finding(l, t, ty) : l \in MergeLines, t \in MergeTexts, ty \in CommentTypes}

MergeAiPool ==
  {Finding(5, "X", "error"), Finding(5, "X", "warning"), Finding(5, "Y", "info"),
   Finding(7, "X", "suggestion")}

InitMerge ==
  /\ requests = <<>>
  /\ generatedText = <<>>
  /\ analyzerThrows = FALSE
  /\ entry = "merge"
  /\ submission = Body(Go, <<"x">>)
  /\ pc = "start"
  /\ staticAnalysisComments \in SeqsUpTo(StaticPool, MaxStaticComments)
  /\ currentModel = ""
  /\ retryCount = 0
  /\ log = <<>>
  /\ clientResult = JsNull
  /\ aiAnalysisResult \in {AiResult(cs) : cs \in SeqsUpTo(MergeAiPool, MaxAiComments)}
  /\ finalResult = JsNull
  /\ reviews = <<>>
  /\ reviewIdCounter = 1
  /\ response = NoResponse

\* finalResult = mergeAnalysisResults(aiAnalysisResult, staticAnalysisComments)
MergeCall ==
  /\ entry = "merge" /\ pc = "start"
  /\ ~MergeThrows(aiAnalysisResult, staticAnalysisComments)
  /\ finalResult' = mergeAnalysisResults(aiAnalysisResult, staticAnalysisComments)
  /\ pc' = "done"
  /\ UNCHANGED <<requests, generatedText, analyzerThrows, entry, submission, staticAnalysisComments, currentModel, retryCount, log,
                 clientResult, aiAnalysisResult, reviews, reviewIdCounter, response>>

NextMerge == MergeCall

MergeSpec == InitMerge /\ [][NextMerge]_vars

(***************************************************************************)
(* performBasicAnalysis called on its own, on short codes and on the        *)
(* sample codes in any language                                            *)
(***************************************************************************)

\* The longest code handed to a direct performBasicAnalysis
MaxCodeLen == 3

Languages == {JavaScript, TypeScript, Python, Java, Cpp, Go}

\* Codes of white space and the letter x, the empty code among them
ShortCodes == SeqsUpTo({" ", "\n", "\t", "x"}, MaxCodeLen)

\* The sample codes, each also behind an empty first line and before a
\* closing line break
SampleCodes ==
  LET samples == {CodeJs, CodePy, CodeJava, CodeCpp, CodeTrailing, CodeLong}
  IN  samples \cup {<<"\n">> \o c : c \in samples} \cup {c \o <<"\n">> : c \in samples}
        \cup {<<"\n">> \o c \o <<"\n">> : c \in samples}

InitAnalyzer ==
  /\ requests = <<>>
  /\ generatedText = <<>>
  /\ analyzerThrows = FALSE
  /\ entry = "analyzer"
  /\ submission \in {Body(l, c) : l \in Languages, c \in ShortCodes \cup SampleCodes}
  /\ pc = "start"
  /\ staticAnalysisComments = <<>>
  /\ currentModel = ""
  /\ retryCount = 0
  /\ log = <<>>
  /\ clientResult = JsNull
  /\ aiAnalysisResult = JsNull
  /\ finalResult = JsNull
  /\ reviews = <<>>
  /\ reviewIdCounter = 1
  /\ response = NoResponse

\* staticAnalysisComments = performBasicAnalysis(submission)
AnalyzerCall ==
  /\ entry = "analyzer" /\ pc = "start"
  /\ staticAnalysisComments' = performBasicAnalysis(submission)
  /\ pc' = "done"
  /\ UNCHANGED <<requests, generatedText, analyzerThrows, entry, submission, currentModel, retryCount, log,
                 clientResult, aiAnalysisResult, finalResult, reviews, reviewIdCounter, response>>

NextAnalyzer == AnalyzerCall

AnalyzerSpec == InitAnalyzer /\ [][NextAnalyzer]_vars

(***************************************************************************)
(* generateFallbackResult called on its own, on any list of findings       *)
(***************************************************************************)

\* The longest list of findings handed to a direct generateFallbackResult
MaxFallbackComments == 6

\* The k-th finding of such a list is on line k; only its type matters
FallbackLists ==
  {[k \in 1..Len(ts) |-> Finding(k, "T", ts[k])] : ts \in SeqsUpTo(CommentTypes, MaxFallbackComments)}

InitFallback ==
  /\ requests = <<>>
  /\ generatedText = <<>>
  /\ analyzerThrows = FALSE
  /\ entry = "fallback"
  /\ submission = Body(Go, <<"x">>)
  /\ pc = "start"
  /\ staticAnalysisComments \in FallbackLists
  /\ currentModel = ""
  /\ retryCount = 0
  /\ log = <<>>
  /\ clientResult = JsNull
  /\ aiAnalysisResult = JsNull
  /\ finalResult = JsNull
  /\ reviews = <<>>
  /\ reviewIdCounter = 1
  /\ response = NoResponse

\* aiAnalysisResult = generateFallbackResult(staticAnalysisComments, language)
FallbackCall ==
  /\ entry = "fallback" /\ pc = "start"
  /\ aiAnalysisResult' = generateFallbackResult(staticAnalysisComments, submission.language)
  /\ pc' = "done"
  /\ UNCHANGED <<requests, generatedText, analyzerThrows, entry, submission, staticAnalysisComments, currentModel, retryCount, log,
                 clientResult, finalResult, reviews, reviewIdCounter, response>>

NextFallback == FallbackCall

FallbackSpec == InitFallback /\ [][NextFallback]_vars

(***************************************************************************)
(* createSyntheticResultFromText called on its own, on texts of a few      *)
(* lines                                                                   *)
(***************************************************************************)

\* The most lines of a text handed to a direct createSyntheticResultFromText
MaxTextLines == 3

\* A line with a keyword of each of the first two classes, its first keyword
\* in capitals and its second in the class that loses
LineErrorAndWarning == <<"C","r","i","t","i","c","a","l"," ","W","A","R","N","I","N","G",":"," ","c","o","n","s","i","d","e","r"," ","t","h","i","s"," ","c","h","a","n","g","e">>

\* A line with keywords of the second and the third class
LineWarningAndSuggestion == <<"C","o","n","s","i","d","e","r"," ","t","h","e"," ","s","u","g","g","e","s","t","e","d"," ","i","m","p","r","o","v","e","m","e","n","t"," ","h","e","r","e">>

LineSuggestion == <<"I"," ","R","e","c","o","m","m","e","n","d"," ","r","e","n","a","m","i","n","g"," ","t","h","e"," ","v","a","r","i","a","b","l","e"," ","x">>

LineInfo == <<"T","h","i","s"," ","l","i","n","e"," ","i","s"," ","p","l","a","i","n"," ","a","n","d"," ","l","o","n","g"," ","e","n","o","u","g","h">>

\* A keyword in capitals on a line with white space around it
LinePadded == <<" "," ","A"," ","S","E","V","E","R","E"," ","f","a","u","l","t",","," ","i","n","d","e","n","t","e","d"," ","a","n","d"," ","p","a","d","d","e","d"," "," ">>

\* A keyword inside a longer word
LineSubstring == <<"T","h","e"," ","t","e","r","r","o","r"," ","o","f"," ","l","o","n","g"," ","m","e","t","h","o","d","s"," ","r","e","m","a","i","n","s">>

\* A line with a keyword that is too short for a comment
LineShort == <<"s","h","o","r","t"," ","e","r","r","o","r">>

LineBlank == <<" ", " ">>

\* A line of source code
LineCode == <<"c","o","n","s","t"," ","x"," ","="," ","1",";">>

TextLinePool ==
  {LineErrorAndWarning, LineWarningAndSuggestion, LineSuggestion, LineInfo, LinePadded,
   LineSubstring, LineShort, LineBlank, LineCode}

\* Array.prototype.join("\n")
RECURSIVE JoinLines(_)
JoinLines(ls) ==
  IF ls = <<>> THEN <<>>
  ELSE IF Len(ls) = 1 THEN ls[1]
  ELSE ls[1] \o <<"\n">> \o JoinLines(Tail(ls))

\* The texts of at most MaxTextLines lines of the pool
ShortTexts == {JoinLines(ls) : ls \in SeqsUpTo(TextLinePool, MaxTextLines)}

InitExtract ==
  /\ requests = <<>>
  /\ generatedText \in ShortTexts
  /\ analyzerThrows = FALSE
  /\ entry = "synth"
  /\ submission = Body(Go, <<"x">>)
  /\ pc = "start"
  /\ staticAnalysisComments = <<>>
  /\ currentModel = HF_MODEL
  /\ retryCount = 0
  /\ log = <<>>
  /\ clientResult = JsNull
  /\ aiAnalysisResult = JsNull
  /\ finalResult = JsNull
  /\ reviews = <<>>
  /\ reviewIdCounter = 1
  /\ response = NoResponse

\* clientResult = createSyntheticResultFromText(generatedText, currentModel)
ExtractCall ==
  /\ entry = "synth" /\ pc = "start"
  /\ clientResult' = createSyntheticResultFromText(generatedText, currentModel)
  /\ pc' = "done"
  /\ UNCHANGED <<requests, generatedText, analyzerThrows, entry, submission, staticAnalysisComments, currentModel, retryCount, log,
                 aiAnalysisResult, finalResult, reviews, reviewIdCounter, response>>

NextExtract == ExtractCall

ExtractSpec == InitExtract /\ [][NextExtract]_vars

(***************************************************************************)
(* MemStorage and the routes that write to it, under concurrent requests   *)
(* (src/server/storage.ts, src/server/routes.ts): POST /api/review from    *)
(* the merge on, POST /api/gitlab/post-review/:reviewId, and               *)
(* updateReviewGitlabInfo called on its own.  A handler runs from one      *)
(* await to the next without interruption; between two awaits of one       *)
(* request any step of another request can run.                            *)
(***************************************************************************)

\* The requests in flight at once
MaxRequests == 3

Digits == <<"0","1","2","3","4","5","6","7","8","9">>

IsDigit(c) == \E d \in 1..Len(Digits) : Digits[d] = c

DigitValue(c) == (CHOOSE d \in 1..Len(Digits) : Digits[d] = c) - 1

\* The number that a string of decimal digits denotes
RECURSIVE DecimalValue(_)
DecimalValue(ds) ==
  IF ds = <<>> THEN 0
  ELSE 10 * DecimalValue(SubSeq(ds, 1, Len(ds) - 1)) + DigitValue(ds[Len(ds)])

\* The longest prefix of s that consists of decimal digits
RECURSIVE DigitPrefix(_)
DigitPrefix(s) ==
  IF s = <<>> \/ ~IsDigit(s[1]) THEN <<>> ELSE <<s[1]>> \o DigitPrefix(Tail(s))

\* parseInt(s) on strings without a hexadecimal prefix: leading white space is
\* skipped, a sign is taken, then the longest run of digits; what follows the
\* digits is ignored.  NaN is the empty sequence.
ParseInt(s) ==
  LET t      == TrimStart(s)
      signed == t # <<>> /\ t[1] \in {"+", "-"}
      body   == IF signed THEN Tail(t) ELSE t
      digits == DigitPrefix(body)
  IN  IF digits = <<>> THEN <<>>
      ELSE IF signed /\ t[1] = "-" THEN <<0 - DecimalValue(digits)>>
      ELSE <<DecimalValue(digits)>>

\* MemStorage.getReview: the row, undefined being the empty sequence
getReview(revs, id) == IF id \in DOMAIN revs THEN <<revs[id]>> ELSE <<>>

\* A createReview that does not advance the counter
createReviewSameCounter(revs, counter, body, results) ==
  [reviews |-> [i \in DOMAIN revs \cup {counter} |->
                  IF i = counter THEN NewReview(counter, body, results) ELSE revs[i]],
   counter |-> counter,
   review  |-> NewReview(counter, body, results)]

\* MemStorage.createReview: the map, the counter and the returned row
createReview(revs, counter, body, results) ==
  [reviews |-> [i \in DOMAIN revs \cup {counter} |->
                  IF i = counter THEN NewReview(counter, body, results) ELSE revs[i]],
   counter |-> counter + 1,
   review  |-> NewReview(counter, body, results)]

\* The block with commentIds set
WithCommentIds(block, ids) ==
  [p \in DOMAIN block \cup {"commentIds"} |-> IF p = "commentIds" THEN ids ELSE block[p]]

\* The results of a row after updateReviewGitlabInfo
UpdatedResults(row, ids) ==
  LET results == row.results
      block   == IF Has(results, "gitlabIntegration")
                 THEN WithCommentIds(results.gitlabIntegration, ids)
                 ELSE [projectId      |-> row.gitlabProjectId,
                       mergeRequestId |-> row.gitlabMergeRequestId,
                       commitSha      |-> row.gitlabCommitSha,
                       commentIds     |-> ids]
  IN  [p \in DOMAIN results \cup {"gitlabIntegration"} |->
         IF p = "gitlabIntegration" THEN block ELSE results[p]]

\* An update that also empties the comments of the result, as posted
updateReviewGitlabInfoClearing(revs, reviewId, gitlabCommentIds) ==
  IF reviewId \notin DOMAIN revs THEN [reviews |-> revs, returned |-> <<>>]
  ELSE LET results == UpdatedResults(revs[reviewId], gitlabCommentIds)
           updated == [revs[reviewId] EXCEPT !.results = [results EXCEPT !.comments = <<>>]]
       IN  [reviews |-> [revs EXCEPT ![reviewId] = updated], returned |-> <<updated>>]

\* MemStorage.updateReviewGitlabInfo: the map and the returned row
updateReviewGitlabInfo(revs, reviewId, gitlabCommentIds) ==
  IF reviewId \notin DOMAIN revs THEN [reviews |-> revs, returned |-> <<>>]
  ELSE LET updated == [revs[reviewId] EXCEPT !.results = UpdatedResults(revs[reviewId], gitlabCommentIds)]
       IN  [reviews |-> [revs EXCEPT ![reviewId] = updated], returned |-> <<updated>>]

\* The submissions of the concurrent requests: one with both GitLab ids, one
\* with the project id alone, one with none
StoreBodies ==
  { [language |-> JavaScript, reviewType |-> "Security Focus", code |-> CodeJs,
     gitlabProjectId |-> 7, gitlabMergeRequestId |-> 3, gitlabCommitSha |-> "abc123"],
    [language |-> Go, reviewType |-> "Syntax Only", code |-> CodeTrailing, gitlabProjectId |-> 7],
    Body(Python, CodePy) }

\* POST /api/review at the point where analyzeCode has returned the
\* static-only result
ReviewRequest(body) ==
  [kind |-> "review", pc |-> "analyzed", body |-> body,
   staticAnalysisComments |-> performBasicAnalysis(body),
   aiAnalysisResult |-> staticOnlyResult(body, FALSE),
   review |-> <<>>, response |-> NoResponse]

\* A comment of a provider that names a file
FindingInFile(l, t, ty, f) ==
  [line |-> l, text |-> t, type |-> ty, suggestion |-> <<>>, file |-> f]

\* Comments of a provider: one with an empty file, one with a file, one with
\* none
FileComments ==
  <<FindingInFile(1, "X", "info", ""), FindingInFile(2, "Y", "warning", "b.js"),
    Finding(9, "Z", "suggestion")>>

\* POST /api/review at the point where analyzeCode has returned the result of
\* a provider
AnsweredReviewRequest(body, comments) ==
  [kind |-> "review", pc |-> "analyzed", body |-> body,
   staticAnalysisComments |-> performBasicAnalysis(body),
   aiAnalysisResult |-> AiResult(comments),
   review |-> <<>>, response |-> NoResponse]

\* The gitlab-token header: absent, empty, or a token
Tokens == {<<>>, <<"">>, <<"glpat-1">>}

\* !token: the header is absent or the empty string
NoToken(token) == token = <<>> \/ token = <<"">>

\* The :reviewId parameter
ReviewIdParams == {<<"1">>, <<"1","a","b","c">>, <<"a","b","c">>}

\* POST /api/gitlab/post-review/:reviewId
PostRequest(token, param) ==
  [kind |-> "post", pc |-> "start", token |-> token, param |-> param,
   reviewId |-> <<>>, review |-> <<>>, commentCount |-> 0, response |-> NoResponse]

\* storage.updateReviewGitlabInfo(reviewId, gitlabCommentIds) called directly
UpdateRequest(reviewId, ids) ==
  [kind |-> "update", pc |-> "start", reviewId |-> reviewId, gitlabCommentIds |-> ids,
   returned |-> <<>>]

RequestPool ==
  {ReviewRequest(b) : b \in StoreBodies}
  \cup {AnsweredReviewRequest([language |-> Python, reviewType |-> "Comprehensive", code |-> CodePy,
                                gitlabProjectId |-> 7, gitlabMergeRequestId |-> 3],
                               FileComments)}
  \cup {PostRequest(<<"glpat-1">>, p) : p \in ReviewIdParams}
  \cup {PostRequest(<<>>, <<"a","b","c">>), PostRequest(<<"">>, <<"1">>)}
  \cup {UpdateRequest(1, <<201>>), UpdateRequest(9, <<201>>)}

\* The merge-request diff as far as postCodeReviewComments reads it,
\* diff[0]?.new_path: no file, a first file with an empty path, or the path of
\* the first file
GitlabDiffs == {<<>>, <<"">>, <<"src/a.js">>}

\* The ids that GitLab gives to the comments of one posting, in the order of
\* the calls
GitlabIds(n) == [i \in 1..n |-> 100 + i]

\* The comment has a file to be placed in: comment.file || diff[0]?.new_path
HasFile(comment, diff) ==
  \/ Has(comment, "file") /\ comment.file # ""
  \/ diff # <<>> /\ diff[1] # ""

\* The comments that are posted: those with a file
PostedComments(comments, diff) ==
  LET Placed(c) == HasFile(c, diff) IN SelectSeq(comments, Placed)

\* gitlab.postCodeReviewComments when every call succeeds, as the ids of its
\* results: the summary comment, then one result for every comment with a file
\* (a line comment, or the general comment posted when the line comment is
\* refused)
postCodeReviewComments(comments, diff) ==
  GitlabIds(1 + Len(PostedComments(comments, diff)))

\* What postCodeReviewComments ends in: the ids of the comments it created, or
\* the error it throws
GitlabOutcomes(comments) ==
  {[type |-> "posted", ids |-> postCodeReviewComments(comments, d)] : d \in GitlabDiffs}
  \cup {[type |-> "throw"]}

GitlabCallEvent(projectId, mergeRequestId) ==
  [ev |-> "gitlab", projectId |-> projectId, mergeRequestId |-> mergeRequestId]

\* value is falsy: null, or the number 0
Falsy(opt) == opt = <<>> \/ opt = <<0>>

InitStore ==
  /\ requests \in [1..MaxRequests -> RequestPool]
  /\ generatedText = <<>>
  /\ analyzerThrows = FALSE
  /\ entry = "store"
  /\ submission = Body(Go, <<"x">>)
  /\ pc = "start"
  /\ staticAnalysisComments = <<>>
  /\ currentModel = ""
  /\ retryCount = 0
  /\ log = <<>>
  /\ clientResult = JsNull
  /\ aiAnalysisResult = JsNull
  /\ finalResult = JsNull
  /\ reviews = <<>>
  /\ reviewIdCounter = 1
  /\ response = NoResponse

\* POST /api/review, request r, from the merge to `await storage.createReview`
StoreReview(r) ==
  /\ entry = "store" /\ requests[r].kind = "review" /\ requests[r].pc = "analyzed"
  /\ LET req    == requests[r]
         merged == WithGitlab(mergeAnalysisResults(req.aiAnalysisResult, req.staticAnalysisComments),
                              req.body)
         made   == createReview(reviews, reviewIdCounter, req.body, merged)
     IN  /\ reviews' = made.reviews
         /\ reviewIdCounter' = made.counter
         /\ requests' = [requests EXCEPT ![r].pc = "stored", ![r].review = <<made.review.id>>]
  /\ UNCHANGED <<generatedText, analyzerThrows, entry, submission, pc, staticAnalysisComments, currentModel,
                 retryCount, log, clientResult, aiAnalysisResult, finalResult, response>>

\* POST /api/review, request r: res.status(200).json(finalResult), finalResult
\* being the object that the stored row holds as its results
RespondReview(r) ==
  /\ entry = "store" /\ requests[r].kind = "review" /\ requests[r].pc = "stored"
  /\ requests' = [requests EXCEPT
       ![r].pc = "done",
       ![r].response = [status |-> 200, body |-> reviews[requests[r].review[1]].results]]
  /\ UNCHANGED <<generatedText, analyzerThrows, entry, submission, pc, staticAnalysisComments, currentModel,
                 retryCount, log, clientResult, aiAnalysisResult, finalResult, reviews, reviewIdCounter,
                 response>>

\* POST /api/gitlab/post-review/:reviewId, request r, up to
\* `await storage.getReview(reviewId)`
PostStart(r) ==
  /\ entry = "store" /\ requests[r].kind = "post" /\ requests[r].pc = "start"
  /\ LET req      == requests[r]
         reviewId == ParseInt(req.param)
     IN  requests' =
           IF NoToken(req.token)
           THEN [requests EXCEPT ![r].pc = "done",
                   ![r].response = [status |-> 401, message |-> "GitLab token is required"]]
           ELSE IF reviewId = <<>>
           THEN [requests EXCEPT ![r].pc = "done",
                   ![r].response = [status |-> 400, message |-> "Invalid review ID"]]
           ELSE [requests EXCEPT ![r].pc = "got", ![r].reviewId = reviewId,
                   ![r].review = IF getReview(reviews, reviewId[1]) = <<>> THEN <<>> ELSE reviewId]
  /\ UNCHANGED <<generatedText, analyzerThrows, entry, submission, pc, staticAnalysisComments, currentModel,
                 retryCount, log, clientResult, aiAnalysisResult, finalResult, reviews, reviewIdCounter,
                 response>>

\* The same, from the row that getReview gave to the call of
\* gitlab.postCodeReviewComments
PostCheck(r) ==
  /\ entry = "store" /\ requests[r].kind = "post" /\ requests[r].pc = "got"
  /\ LET req == requests[r]
     IN  IF req.review = <<>>
         THEN /\ requests' = [requests EXCEPT ![r].pc = "done",
                                ![r].response = [status |-> 404, message |-> "Review not found"]]
              /\ UNCHANGED log
         ELSE LET row == reviews[req.review[1]]
              IN  IF Falsy(row.gitlabProjectId) \/ Falsy(row.gitlabMergeRequestId)
                  THEN /\ requests' = [requests EXCEPT ![r].pc = "done",
                                         ![r].response =
                                           [status |-> 400,
                                            message |-> "This review is not associated with a GitLab merge request"]]
                       /\ UNCHANGED log
                  ELSE /\ requests' = [requests EXCEPT ![r].pc = "posting"]
                       /\ log' = Append(log, GitlabCallEvent(row.gitlabProjectId[1],
                                                             row.gitlabMergeRequestId[1]))
  /\ UNCHANGED <<generatedText, analyzerThrows, entry, submission, pc, staticAnalysisComments, currentModel,
                 retryCount, clientResult, aiAnalysisResult, finalResult, reviews, reviewIdCounter,
                 response>>

\* A settling that records the comment ids whatever postCodeReviewComments
\* ended in
PostSettleRecordingOnFailure(r) ==
  /\ entry = "store" /\ requests[r].kind = "post" /\ requests[r].pc = "posting"
  /\ \E o \in GitlabOutcomes(reviews[requests[r].reviewId[1]].results.comments) :
       /\ reviews' = updateReviewGitlabInfo(reviews, requests[r].reviewId[1], GitlabIds(1)).reviews
       /\ IF o.type = "posted"
          THEN requests' = [requests EXCEPT ![r].pc = "updated", ![r].commentCount = Len(o.ids)]
          ELSE requests' = [requests EXCEPT ![r].pc = "done",
                              ![r].response = [status |-> 500, success |-> FALSE,
                                               message |-> "Failed to post review to GitLab"]]
  /\ UNCHANGED <<generatedText, analyzerThrows, entry, submission, pc, staticAnalysisComments, currentModel,
                 retryCount, log, clientResult, aiAnalysisResult, finalResult, reviewIdCounter, response>>

\* The same, once postCodeReviewComments has settled: the ids are recorded
\* with storage.updateReviewGitlabInfo, or the catch block answers 500
PostSettle(r) ==
  /\ entry = "store" /\ requests[r].kind = "post" /\ requests[r].pc = "posting"
  /\ \E o \in GitlabOutcomes(reviews[requests[r].reviewId[1]].results.comments) :
       IF o.type = "posted"
       THEN /\ reviews' = updateReviewGitlabInfo(reviews, requests[r].reviewId[1], o.ids).reviews
            /\ requests' = [requests EXCEPT ![r].pc = "updated", ![r].commentCount = Len(o.ids)]
       ELSE /\ requests' = [requests EXCEPT ![r].pc = "done",
                              ![r].response = [status |-> 500, success |-> FALSE,
                                               message |-> "Failed to post review to GitLab"]]
            /\ UNCHANGED reviews
  /\ UNCHANGED <<generatedText, analyzerThrows, entry, submission, pc, staticAnalysisComments, currentModel,
                 retryCount, log, clientResult, aiAnalysisResult, finalResult, reviewIdCounter, response>>

\* The same, after `await storage.updateReviewGitlabInfo`: the answer
PostRespond(r) ==
  /\ entry = "store" /\ requests[r].kind = "post" /\ requests[r].pc = "updated"
  /\ requests' = [requests EXCEPT ![r].pc = "done",
                    ![r].response = [status |-> 200, success |-> TRUE,
                                     message |-> "Review posted to GitLab successfully",
                                     commentCount |-> requests[r].commentCount]]
  /\ UNCHANGED <<generatedText, analyzerThrows, entry, submission, pc, staticAnalysisComments, currentModel,
                 retryCount, log, clientResult, aiAnalysisResult, finalResult, reviews, reviewIdCounter,
                 response>>

\* storage.updateReviewGitlabInfo(reviewId, gitlabCommentIds), request r
UpdateCall(r) ==
  /\ entry = "store" /\ requests[r].kind = "update" /\ requests[r].pc = "start"
  /\ LET done == updateReviewGitlabInfo(reviews, requests[r].reviewId, requests[r].gitlabCommentIds)
     IN  /\ reviews' = done.reviews
         /\ requests' = [requests EXCEPT ![r].pc = "done", ![r].returned = done.returned]
  /\ UNCHANGED <<generatedText, analyzerThrows, entry, submission, pc, staticAnalysisComments, currentModel,
                 retryCount, log, clientResult, aiAnalysisResult, finalResult, reviewIdCounter, response>>

NextStore ==
  \E r \in 1..MaxRequests :
    \/ StoreReview(r)
    \/ RespondReview(r)
    \/ PostStart(r)
    \/ PostCheck(r)
    \/ PostSettle(r)
    \/ PostRespond(r)
    \/ UpdateCall(r)

StoreSpec == InitStore /\ [][NextStore]_vars

(***************************************************************************)
(* Properties                                                              *)
(***************************************************************************)

\* The merge has returned: finalResult holds its result
MergeReturned ==
  \/ entry = "merge" /\ pc = "done"
  \/ entry = "route" /\ pc = "stored"
  \/ entry = "route" /\ pc = "done" /\ response.status = 200

\* The route has answered a request whose body passed validation
ReviewAnswered == entry = "route" /\ pc = "done" /\ ValidSubmission(submission)

SamePlace(a, b) == a.line = b.line /\ a.text = b.text

\* How many comments of cs have the line and the text of c
CountPlace(cs, c) == Cardinality({i \in 1..Len(cs) : SamePlace(cs[i], c)})

\* The positions of the static findings that no AI comment duplicates
NewFindings(aiComments, static) ==
  {i \in 1..Len(static) : \A k \in 1..Len(aiComments) : ~SamePlace(aiComments[k], static[i])}

CountNew(aiComments, static, types) ==
  Cardinality({i \in NewFindings(aiComments, static) : static[i].type \in types})

\* C1: the review pipeline never ends in an error: every validated submission
\* is answered with status 200 and a well-formed ReviewResult, whatever the
\* provider calls ended in.
C1_PipelineNeverFails ==
  ReviewAnswered => response.status = 200 /\ WellFormedResult(response.body)

\* C2: the result returned by the pipeline has critical + warnings + info equal
\* to the number of its comments of type error, warning, info or suggestion.
C2_IssuesMatchComments ==
  ReviewAnswered /\ response.status = 200 =>
    /\ Has(response.body, "issues") /\ Has(response.body, "comments")
    /\ response.body.issues.critical + response.body.issues.warnings + response.body.issues.info
         = CountType(response.body.comments, {"error"})
           + CountType(response.body.comments, {"warning"})
           + CountType(response.body.comments, {"info", "suggestion"})

\* C3: merge additivity: every static finding that is added raises the issues
\* bucket of its type by exactly one (error -> critical, warning -> warnings,
\* info or suggestion -> info) and leaves the other buckets alone.
C3_MergeAdditivity ==
  MergeReturned /\ Has(aiAnalysisResult, "issues") =>
    /\ finalResult.issues.critical = aiAnalysisResult.issues.critical
         + CountNew(aiAnalysisResult.comments, staticAnalysisComments, {"error"})
    /\ finalResult.issues.warnings = aiAnalysisResult.issues.warnings
         + CountNew(aiAnalysisResult.comments, staticAnalysisComments, {"warning"})
    /\ finalResult.issues.info = aiAnalysisResult.issues.info
         + CountNew(aiAnalysisResult.comments, staticAnalysisComments, {"info", "suggestion"})

\* C4: merge dedup: a static finding whose line and text are those of an AI
\* comment is not added and counted in no issues bucket, so the merged result
\* has as many comments with that line and text as the AI result had (exactly
\* one when the AI result had one); every other static finding is added, also
\* when an AI comment shares only its line or only its text.
C4_MergeDedup ==
  MergeReturned /\ Has(aiAnalysisResult, "issues") =>
    LET ai     == aiAnalysisResult.comments
        static == staticAnalysisComments
        merged == finalResult.comments
    IN  /\ \A i \in 1..Len(static) :
             IF i \in NewFindings(ai, static)
             THEN CountPlace(merged, static[i]) = CountPlace(static, static[i])
             ELSE CountPlace(merged, static[i]) = CountPlace(ai, static[i])
        /\ Len(merged) = Len(ai) + Cardinality(NewFindings(ai, static))
        /\ finalResult.issues.critical - aiAnalysisResult.issues.critical
             \in 0..CountNew(ai, static, {"error"})
        /\ finalResult.issues.warnings - aiAnalysisResult.issues.warnings
             \in 0..CountNew(ai, static, {"warning"})
        /\ finalResult.issues.info - aiAnalysisResult.issues.info
             \in 0..CountNew(ai, static, {"info", "suggestion"})

\* C4 witness: a direct merge in which one static finding duplicates an AI
\* comment and another one, which shares its line with one AI comment and its
\* text with another, was added.
C4_Witness ==
  /\ entry = "merge" /\ pc = "done"
  /\ \E i \in 1..Len(staticAnalysisComments) :
       CountPlace(aiAnalysisResult.comments, staticAnalysisComments[i]) = 1
       /\ CountPlace(finalResult.comments, staticAnalysisComments[i]) = 1
  /\ \E j \in NewFindings(aiAnalysisResult.comments, staticAnalysisComments) :
       LET s == staticAnalysisComments[j]
       IN  /\ \E k \in 1..Len(aiAnalysisResult.comments) :
                aiAnalysisResult.comments[k].line = s.line
           /\ \E k \in 1..Len(aiAnalysisResult.comments) :
                aiAnalysisResult.comments[k].text = s.text
           /\ CountPlace(finalResult.comments, s) = 1

\* C5: the provider client returns null or a complete, well-formed
\* ReviewResult, never a parsed value that lacks a part.
C5_ClientResultComplete ==
  pc = "client_done" => clientResult = JsNull \/ WellFormedResult(clientResult)

(***************************************************************************)
(* Properties of the provider clients, read off the call log                *)
(***************************************************************************)

IsCall(e) == e.ev = "call"

IsSleep(e) == e.ev = "sleep"

IsResponse(e) == e.ev = "response"

\* The call failed: the client threw, or the content was empty or no JSON
Failed(e) == IsResponse(e) /\ e.outcome.type # "json"

Thrown(e) == IsResponse(e) /\ e.outcome.type = "throw"

\* A quota-exhaustion error
QuotaExhausted(e) == Thrown(e) /\ e.outcome.error.code = "insufficient_quota"

\* A rate-limit signal: status 429 that is no quota error
RateLimited(e) == Thrown(e) /\ e.outcome.error.status = 429 /\ ~QuotaExhausted(e)

CallsOn(model) == {i \in 1..Len(log) : IsCall(log[i]) /\ log[i].model = model}

\* C6 as claimed: once the primary model has answered attempts 1 and 2 with a
\* rate-limit signal, every later call goes to the secondary model.
C6_FallBackAfterTwoRateLimits ==
  entry = "route" =>
    \A i \in 1..Len(log) :
      RateLimited(log[i]) /\ log[i].model = OPENAI_MODEL /\ log[i].retry = 1 =>
        \A j \in (i + 1)..Len(log) : IsCall(log[j]) => log[j].model = FALLBACK_MODEL

\* C6 amended: the budget of 2 counts the retries after the first attempt.
\* After rate-limit signals on attempts 1 and 2 the client waits and makes a
\* third attempt on the primary model; when that attempt succeeds the client
\* returns without calling the secondary model; rate limits make it fall back
\* only when they hit attempt 3.
C6_ThirdAttemptOnPrimary ==
  entry = "route" =>
    \A i \in 1..Len(log) :
      RateLimited(log[i]) /\ log[i].model = OPENAI_MODEL =>
        /\ log[i].retry = 1 =>
             /\ i < Len(log) /\ IsSleep(log[i + 1])
             /\ i + 2 <= Len(log) => log[i + 2] = CallEvent(OPENAI_MODEL, 2)
             /\ i + 3 <= Len(log) /\ ~Failed(log[i + 3]) =>
                  Len(log) = i + 3 /\ CallsOn(FALLBACK_MODEL) = {} /\ pc # "api"
        /\ i < Len(log) /\ IsCall(log[i + 1]) /\ log[i + 1].model = FALLBACK_MODEL =>
             log[i].retry = MAX_RETRIES

\* C6 witness: rate-limit signals on attempts 1 and 2, success on attempt 3 of
\* the primary model, and the client has returned that answer.
C6_Witness ==
  /\ entry = "route" /\ pc = "client_done" /\ Len(log) = 8
  /\ RateLimited(log[2]) /\ RateLimited(log[5])
  /\ log[7] = CallEvent(OPENAI_MODEL, 2)
  /\ IsResponse(log[8]) /\ ~Failed(log[8])
  /\ WellFormedResult(clientResult)

\* C7: a retry follows a rate-limit signal on the same model after one delay
\* of RETRY_DELAY, a model gets at most MAX_RETRIES retries after its first
\* attempt, and the first call on the secondary model follows the failed call
\* without a delay.
C7_FixedDelayRetries ==
  \A i \in 1..Len(log) :
    /\ IsSleep(log[i]) =>
         /\ log[i].ms = RETRY_DELAY
         /\ i > 1 /\ Thrown(log[i - 1]) /\ log[i - 1].outcome.error.status = 429
         /\ i < Len(log) => log[i + 1] = CallEvent(log[i - 1].model, log[i - 1].retry + 1)
    /\ IsCall(log[i]) =>
         /\ log[i].retry <= MAX_RETRIES
         /\ log[i].retry > 0 => i > 2 /\ IsSleep(log[i - 1]) /\ IsResponse(log[i - 2])
         /\ log[i].retry = 0 /\ i > 1 => IsResponse(log[i - 1])
    /\ RateLimited(log[i]) /\ log[i].retry < MAX_RETRIES =>
         i < Len(log) /\ IsSleep(log[i + 1])

\* C7 witness: two retries of the primary model, each after a delay, a third
\* rate-limit signal, and the switch to the secondary model right after it.
C7_Witness ==
  /\ entry = "route" /\ Len(log) >= 9
  /\ RateLimited(log[2]) /\ IsSleep(log[3]) /\ log[4] = CallEvent(OPENAI_MODEL, 1)
  /\ RateLimited(log[5]) /\ IsSleep(log[6]) /\ log[7] = CallEvent(OPENAI_MODEL, 2)
  /\ RateLimited(log[8]) /\ log[9] = CallEvent(FALLBACK_MODEL, 0)

\* C8: the OpenAI client switches to the secondary model at most once, right
\* after the primary's retries are exhausted by rate limits or after a quota
\* error, with the retry counter at 0; it never calls the primary model again;
\* when the secondary model fails too it returns null.
C8_SingleSwitch ==
  entry = "route" =>
    /\ Cardinality({i \in 1..Len(log) : log[i] = CallEvent(FALLBACK_MODEL, 0)}) <= 1
    /\ \A i \in CallsOn(FALLBACK_MODEL) :
         /\ \A j \in (i + 1)..Len(log) : IsCall(log[j]) => log[j].model = FALLBACK_MODEL
         /\ IsResponse(log[i - 1]) => log[i].retry = 0 /\ log[i - 1].model = OPENAI_MODEL
    /\ \A i \in 1..Len(log) :
         /\ IsResponse(log[i]) /\ log[i].model = OPENAI_MODEL
         /\ QuotaExhausted(log[i]) \/ (RateLimited(log[i]) /\ log[i].retry = MAX_RETRIES)
         => i < Len(log) /\ log[i + 1] = CallEvent(FALLBACK_MODEL, 0)
    /\ pc = "client_done" /\ Failed(log[Len(log)]) /\ log[Len(log)].model = FALLBACK_MODEL
         => clientResult = JsNull

\* C8 witness: the primary model was exhausted by rate limits, the secondary
\* model was rate-limited through all its retries as well, and the client
\* returned null.
C8_Witness ==
  /\ entry = "route" /\ pc = "client_done" /\ clientResult = JsNull
  /\ Len(log) = 16
  /\ RateLimited(log[8]) /\ log[8].model = OPENAI_MODEL
  /\ log[9] = CallEvent(FALLBACK_MODEL, 0)
  /\ log[15] = CallEvent(FALLBACK_MODEL, MAX_RETRIES)
  /\ RateLimited(log[16])

\* C9: a quota error on the primary model is never retried on the primary: the
\* next event is the call to the secondary model, with no delay before it, also
\* when the status is 429 and retries remain.
C9_QuotaNeverRetried ==
  entry = "route" =>
    \A i \in 1..Len(log) :
      QuotaExhausted(log[i]) /\ log[i].model = OPENAI_MODEL =>
        /\ i < Len(log) /\ log[i + 1] = CallEvent(FALLBACK_MODEL, 0)
        /\ \A j \in (i + 1)..Len(log) :
             /\ IsCall(log[j]) => log[j].model # OPENAI_MODEL
             /\ IsSleep(log[j]) => j > i + 2

\* C9 witness: the first call on the primary model ended in a quota error with
\* status 429, and the secondary model was called next.
C9_Witness ==
  /\ entry = "route" /\ Len(log) >= 3
  /\ QuotaExhausted(log[2]) /\ log[2].outcome.error.status = 429
  /\ log[2].model = OPENAI_MODEL /\ log[2].retry = 0
  /\ log[3] = CallEvent(FALLBACK_MODEL, 0)

\* C10: a provider client gives up only after it has tried the secondary model:
\* when its last call failed and it returns no result, the log holds a call to
\* the secondary model.
C10_PermanentErrorFallsBack ==
  /\ entry = "route" /\ pc = "client_done" /\ Failed(log[Len(log)])
       => CallsOn(FALLBACK_MODEL) # {}
  /\ entry = "hf" /\ pc = "done" /\ Failed(log[Len(log)])
       => CallsOn(FALLBACK_HF_MODEL) # {}

\* The longest call log of one provider client chain: on each of the two
\* models MAX_RETRIES + 1 calls with their responses and MAX_RETRIES delays
MaxLogLen == 2 * (2 * (MAX_RETRIES + 1) + MAX_RETRIES)

\* C11: a provider client never throws or rejects to its caller: whatever the
\* provider calls end in, the chain of calls is finite, and when the client
\* has settled it has resolved with null, after a failed last call, or with
\* the value parsed from the last call's content.
C11_ClientNeverThrows ==
  /\ Len(log) <= MaxLogLen
  /\ pc = "client_done" =>
       /\ ~Rejected(clientResult)
       /\ IsResponse(log[Len(log)])
       /\ Failed(log[Len(log)]) => clientResult = JsNull
       /\ ~Failed(log[Len(log)]) => clientResult \in ProviderValues

\* C11 witness: after a quota error on the primary model the secondary model
\* sent content that is no JSON, and the OpenAI client resolved with null.
C11_Witness ==
  /\ entry = "route" /\ pc = "client_done" /\ clientResult = JsNull
  /\ Len(log) = 4
  /\ QuotaExhausted(log[2])
  /\ log[4].model = FALLBACK_MODEL /\ log[4].outcome.type = "unparsable"

\* C12: fallback determinism: the overall grade and score of a result
\* synthesized from findings with e errors and w warnings among n findings are
\* A-/90 when e = 0 and w = 0; B+/85 when e = 0 and w is 1 or 2; B-/80 when
\* n <= 5 and either e = 1, or e = 0 and w > 2; D+/65 when e >= 3; C/70 in
\* every other case.
C12_FallbackGrade ==
  entry = "fallback" /\ pc = "done" =>
    LET e       == CountType(staticAnalysisComments, {"error"})
        w       == CountType(staticAnalysisComments, {"warning"})
        n       == Len(staticAnalysisComments)
        overall == aiAnalysisResult.metrics.overall
        Pair(g, s) == [grade |-> g, score |-> s]
    IN  /\ e = 0 /\ w = 0 => overall = Pair("A-", 90)
        /\ e = 0 /\ w \in {1, 2} => overall = Pair("B+", 85)
        /\ n <= 5 /\ (e = 1 \/ (e = 0 /\ w > 2)) => overall = Pair("B-", 80)
        /\ e >= 3 => overall = Pair("D+", 65)
        /\ e = 2 \/ (n > 5 /\ (e = 1 \/ (e = 0 /\ w > 2))) => overall = Pair("C", 70)
        /\ overall \in {Pair("A-", 90), Pair("B+", 85), Pair("B-", 80),
                        Pair("D+", 65), Pair("C", 70)}

\* C12 witness: six findings, one of them an error, were graded C/70 by the
\* last rule.
C12_Witness ==
  /\ entry = "fallback" /\ pc = "done"
  /\ Len(staticAnalysisComments) = 6
  /\ CountType(staticAnalysisComments, {"error"}) = 1
  /\ aiAnalysisResult.metrics.overall = [grade |-> "C", score |-> 70]

\* Every provider call made so far has failed
AllAttemptsFailed ==
  /\ log # <<>>
  /\ \A i \in 1..Len(log) : IsResponse(log[i]) => Failed(log[i])

\* The route has answered the JavaScript submission whose code is
\* "var x = 1;\nif (x == 1) { console.log(x); }" after every provider call failed
CodeJsAnsweredStaticOnly ==
  /\ ReviewAnswered /\ AllAttemptsFailed
  /\ submission = Body(JavaScript, CodeJs)

\* C13 as claimed: for that submission the final overall grade and score are
\* "B-" and 80.
C13_GradeBMinus ==
  CodeJsAnsweredStaticOnly =>
    /\ response.status = 200
    /\ response.body.metrics.overall = [grade |-> "B-", score |-> 80]

\* C13 amended: for that submission the final overall grade and score are
\* "B+" and 85: its findings are two warnings and a suggestion, and the rule
\* for no errors and at most two warnings matches before the "B-" rule.
C13_GradeBPlus ==
  CodeJsAnsweredStaticOnly =>
    /\ response.status = 200
    /\ CountType(response.body.comments, {"error"}) = 0
    /\ CountType(response.body.comments, {"warning"}) = 2
    /\ response.body.metrics.overall = [grade |-> "B+", score |-> 85]

\* C13 witness: the submission was answered after the primary model failed
\* with a server error, and the answer carries the grade B+.
C13_Witness ==
  /\ CodeJsAnsweredStaticOnly
  /\ Len(log) = 2 /\ Thrown(log[2]) /\ log[2].outcome.error.status = 500
  /\ response.body.metrics.overall.grade = "B+"

\* C14: for that submission, answered after every provider call failed, the
\* final comments are exactly three: a suggestion on line 1 that proposes
\* "const x = 1;", a warning on line 2 that proposes the line with === in
\* place of ==, and a warning on line 2 for the console.log call.
C14_StaticFindingsOfCodeJs ==
  CodeJsAnsweredStaticOnly =>
    /\ response.status = 200
    /\ Len(response.body.comments) = 3
    /\ \E i, j, k \in 1..3 :
         LET c == response.body.comments
         IN  /\ {i, j, k} = {1, 2, 3}
             /\ c[i].line = 1 /\ c[i].type = "suggestion"
             /\ c[i].suggestion = << <<"c","o","n","s","t"," ","x"," ","="," ","1",";">> >>
             /\ c[j].line = 2 /\ c[j].type = "warning"
             /\ c[j].suggestion =
                  << <<"i","f"," ","(","x"," ","=","=","="," ","1",")"," ","{"," ",
                       "c","o","n","s","o","l","e",".","l","o","g","(","x",")",";"," ","}">> >>
             /\ c[k].line = 2 /\ c[k].type = "warning"
             /\ c[k].text = ConsoleLogText
             /\ c[k].suggestion = <<>>

\* C14 witness: the submission was answered with its three findings after
\* both models ran out of retries on rate limits.
C14_Witness ==
  /\ CodeJsAnsweredStaticOnly
  /\ Len(log) = 16 /\ RateLimited(log[16])
  /\ Len(response.body.comments) = 3

\* C15: when the provider client returned null, the answer contains exactly
\* the Pattern Analyzer's findings, each of them once, and its issues counters
\* are the counts of those findings by type (suggestions under info).
C15_StaticOnlyResult ==
  ReviewAnswered /\ clientResult = JsNull =>
    LET static == performBasicAnalysis(submission)
        body   == response.body
    IN  /\ response.status = 200
        /\ staticAnalysisComments = static
        /\ Len(body.comments) = Len(static)
        /\ \A i \in 1..Len(static) : CountPlace(body.comments, static[i]) = 1
        /\ \A i \in 1..Len(static) : \E k \in 1..Len(static) : body.comments[k] = static[i]
        /\ body.issues.critical = CountType(static, {"error"})
        /\ body.issues.warnings = CountType(static, {"warning"})
        /\ body.issues.info = CountType(static, {"info", "suggestion"})

\* C15 witness: the OpenAI client returned null for the Python submission and
\* the route answered with its findings, a suggestion among them.
C15_Witness ==
  /\ ReviewAnswered /\ clientResult = JsNull /\ Failed(log[Len(log)])
  /\ submission = Body(Python, CodePy)
  /\ response.status = 200
  /\ Len(response.body.comments) >= 2
  /\ CountType(response.body.comments, {"suggestion"}) >= 1

\* The synthesized result for an empty list of findings
EmptyFallback(v) ==
  /\ WellFormedResult(v)
  /\ v.comments = <<>>
  /\ v.issues.critical = 0 /\ v.issues.warnings = 0 /\ v.issues.info = 0

\* analyzeCodeWithHuggingFace has returned after both models gave no result
HFGaveNoResult == entry = "hf" /\ pc = "done" /\ ~Truthy(clientResult)

\* C16: when the Pattern Analyzer throws, the pipeline still returns the
\* synthesized result with an empty comments list and all three issues
\* counters 0: the route answers a validated submission with it, and so does
\* the Hugging Face orchestrator once its models gave no result.
C16_AnalyzerFailureCaught ==
  analyzerThrows =>
    /\ ReviewAnswered => response.status = 200 /\ EmptyFallback(response.body)
    /\ HFGaveNoResult => EmptyFallback(aiAnalysisResult)

BlankCode(code) == \A i \in 1..Len(code) : code[i] \in WhiteSpace

\* C18: in every language, the Pattern Analyzer returns for a code that is
\* empty or all white space exactly one finding, {line: 1, text: "Code is
\* empty", type: "error"}, and nothing a language rule-set would add; a code
\* with any other character never gets that finding.
C18_EmptyCode ==
  entry = "analyzer" /\ pc = "done" =>
    IF BlankCode(submission.code)
    THEN /\ Len(staticAnalysisComments) = 1
         /\ staticAnalysisComments[1] =
              [line |-> 1, text |-> "Code is empty", type |-> "error", suggestion |-> <<>>]
    ELSE \A i \in 1..Len(staticAnalysisComments) :
           staticAnalysisComments[i].text # "Code is empty"

\* C18 witness: a code of a blank, a line break and a tab, in a language
\* analyzed by the generic rule-set, got the one finding and no trailing-
\* white-space finding.
C18_Witness ==
  /\ entry = "analyzer" /\ pc = "done"
  /\ submission = Body(Go, <<" ", "\n", "\t">>)
  /\ staticAnalysisComments = <<Finding(1, "Code is empty", "error")>>

\* The provider calls that were issued and have not settled yet
InFlight ==
  Cardinality({i \in 1..Len(log) : IsCall(log[i])})
    - Cardinality({i \in 1..Len(log) : IsResponse(log[i])})

\* C19: provider attempts are strictly sequential: at most one call is in
\* flight, and only while the client awaits it; every call is issued at the
\* start, right after the previous call's response, or after the delay that
\* followed it; and the next event after a call is that call's own response,
\* so no call to another model is issued meanwhile.
C19_SequentialAttempts ==
  /\ InFlight \in {0, 1}
  /\ InFlight = 1 <=> pc = "api"
  /\ \A i \in 1..Len(log) :
       IsCall(log[i]) =>
         /\ i > 1 => \/ IsResponse(log[i - 1])
                      \/ (IsSleep(log[i - 1]) /\ i > 2 /\ IsResponse(log[i - 2]))
         /\ i < Len(log) =>
              /\ IsResponse(log[i + 1])
              /\ log[i + 1].model = log[i].model /\ log[i + 1].retry = log[i].retry

\* C19 witness: the Hugging Face orchestrator awaits its call to the fallback
\* model, issued after the call to the primary model had failed.
C19_Witness ==
  /\ entry = "hf" /\ pc = "api" /\ Len(log) = 3
  /\ Failed(log[2]) /\ log[2].model = HF_MODEL
  /\ log[3] = CallEvent(FALLBACK_HF_MODEL, 0)

\* The free-text client has settled a call in which the model sent a text
\* that JSON.parse rejected
SettledOnText ==
  /\ entry = "hf2" /\ pc = "client_done"
  /\ log[Len(log)].outcome.type = "text"

\* The text that was handed to JSON.parse in that call
LastJsonText == ExtractJsonText(log[Len(log)].outcome.text)

\* Synthetic extraction finds nothing in the text: it is not code and no line
\* qualifies as a finding
NothingUsable(text) == ~isCodeResponse(text) /\ syntheticComments(text) = <<>>

\* C20 as claimed: when the text of the model is no JSON and synthetic
\* extraction yields nothing usable from it, the client returns null for that
\* model.
C20_NothingUsableIsNull ==
  SettledOnText /\ NothingUsable(LastJsonText) => clientResult = JsNull

\* C20 amended: a text that is no JSON and longer than 100 characters always
\* gets a synthetic result, never null; when it is not code and no line
\* qualifies as a finding, that result carries the one default info comment,
\* counters of 0 and the grade B-/80.  A text of at most 100 characters gets
\* no extraction: the client returns null for that model.  In neither case is
\* the call retried.
C20_SyntheticResultOrNull ==
  /\ SettledOnText =>
       IF Len(LastJsonText) > 100
       THEN /\ WellFormedResult(clientResult)
            /\ NothingUsable(LastJsonText) =>
                 /\ clientResult.comments = <<DefaultSyntheticComment>>
                 /\ clientResult.issues.critical = 0
                 /\ clientResult.issues.warnings = 0
                 /\ clientResult.issues.info = 0
                 /\ clientResult.metrics.overall = [grade |-> "B-", score |-> 80]
       ELSE clientResult = JsNull
  /\ entry = "hf2" =>
       \A i \in 1..(Len(log) - 1) :
         IsResponse(log[i]) /\ log[i].outcome.type = "text" => ~IsSleep(log[i + 1])

\* C20 witness: the secondary model sent thirteen short lines of prose, and
\* the client returned the result with the default comment.
C20_Witness ==
  /\ SettledOnText
  /\ log[Len(log)].model = FALLBACK_HF_MODEL
  /\ log[Len(log)].outcome.text = TextNothingUsable
  /\ clientResult.comments = <<DefaultSyntheticComment>>

\* The direct call of createSyntheticResultFromText has returned
ExtractReturned == entry = "synth" /\ pc = "done"

\* The line contains one of the words
HasWord(lower, words) == \E w \in words : Includes(lower, w)

ErrorWords ==
  {<<"e","r","r","o","r">>, <<"c","r","i","t","i","c","a","l">>, <<"s","e","v","e","r","e">>}

WarningWords ==
  {<<"w","a","r","n","i","n","g">>, <<"c","a","u","t","i","o","n">>,
   <<"c","o","n","s","i","d","e","r">>}

SuggestionWords ==
  {<<"s","u","g","g","e","s","t">>, <<"r","e","c","o","m","m","e","n","d">>,
   <<"i","m","p","r","o","v","e","m","e","n","t">>}

\* The line of the text a synthetic comment was taken from, lower-cased
LowerLineOf(text, c) == ToLowerCase(Split(text, "\n")[c.line])

\* The comments that synthetic extraction took from lines of the text
EmittedComments ==
  IF clientResult.comments = <<DefaultSyntheticComment>> THEN <<>> ELSE clientResult.comments

\* C21: in synthetic extraction of a text that is not code, the type of each
\* emitted comment follows from the keywords of its lower-cased line, in this
\* priority: error, critical or severe make an error; otherwise warning,
\* caution or consider make a warning; otherwise suggest, recommend or
\* improvement make a suggestion; every other line is info.
C21_KeywordPriority ==
  ExtractReturned /\ ~isCodeResponse(generatedText) =>
    \A k \in 1..Len(EmittedComments) :
      LET c     == EmittedComments[k]
          lower == LowerLineOf(generatedText, c)
      IN  /\ (c.type = "error") = HasWord(lower, ErrorWords)
          /\ (c.type = "warning") =
               (~HasWord(lower, ErrorWords) /\ HasWord(lower, WarningWords))
          /\ (c.type = "suggestion") =
               (/\ ~HasWord(lower, ErrorWords) /\ ~HasWord(lower, WarningWords)
                /\ HasWord(lower, SuggestionWords))
          /\ (c.type = "info") =
               (/\ ~HasWord(lower, ErrorWords) /\ ~HasWord(lower, WarningWords)
                /\ ~HasWord(lower, SuggestionWords))

\* C21 witness: a text of three lines, each with keywords of two classes or of
\* none, gave an error, a warning and an info comment on its lines 1, 2, 3.
C21_Witness ==
  /\ ExtractReturned
  /\ generatedText = JoinLines(<<LineErrorAndWarning, LineWarningAndSuggestion, LineInfo>>)
  /\ Len(clientResult.comments) = 3
  /\ clientResult.comments[1].type = "error"
  /\ clientResult.comments[2].type = "warning"
  /\ clientResult.comments[3].type = "info"

\* The route holds a final result: the merge and the GitLab step are done
HasFinalResult ==
  entry = "route" /\ (pc = "stored" \/ (pc = "done" /\ response.status = 200))

\* The body has the property, whatever its value
Carries(body, prop) == prop \in DOMAIN body

\* The final result is the stored one and, once the route has answered, the
\* returned one
StoredAndReturned ==
  /\ \E id \in DOMAIN reviews : reviews[id].results = finalResult
  /\ pc = "done" => response.body = finalResult

\* C22 as claimed: the final result carries a gitlabIntegration block whenever
\* the submission carries a project id and a merge-request id, and none when
\* either identifier is absent.
C22_BlockWheneverIdsPresent ==
  HasFinalResult =>
    (Has(finalResult, "gitlabIntegration") <=>
       (Carries(submission, "gitlabProjectId") /\ Carries(submission, "gitlabMergeRequestId")))

\* On the submissions that the route takes as having ids, the claim holds:
\* the final result carries a gitlabIntegration block (project
\* id, merge-request id, commit sha, review URL built from the two ids) exactly
\* when the submission carries a project id and a merge-request id that are
\* both different from 0; the stored and the returned result are that same
\* result, with or without the block.
BlockWheneverIdsNonZero ==
  HasFinalResult =>
    /\ Has(finalResult, "gitlabIntegration") <=>
         /\ Carries(submission, "gitlabProjectId") /\ submission.gitlabProjectId # 0
         /\ Carries(submission, "gitlabMergeRequestId") /\ submission.gitlabMergeRequestId # 0
    /\ Has(finalResult, "gitlabIntegration") =>
         LET block == finalResult.gitlabIntegration
         IN  /\ block.projectId = submission.gitlabProjectId
             /\ block.mergeRequestId = submission.gitlabMergeRequestId
             /\ block.commitSha =
                  (IF Carries(submission, "gitlabCommitSha")
                   THEN <<submission.gitlabCommitSha>> ELSE <<>>)
             /\ block.reviewUrl = <<"https://gitlab.com/projects/", submission.gitlabProjectId,
                                    "/merge_requests/", submission.gitlabMergeRequestId>>
    /\ StoredAndReturned

\* A submission with the project id 7 and the merge-request id 3
\* was answered with a result that has the block.
NonZeroIdsAnswered ==
  /\ HasFinalResult /\ pc = "done"
  /\ Carries(submission, "gitlabProjectId") /\ submission.gitlabProjectId = 7
  /\ Carries(submission, "gitlabMergeRequestId") /\ submission.gitlabMergeRequestId = 3
  /\ response.body.gitlabIntegration.reviewUrl =
       <<"https://gitlab.com/projects/", 7, "/merge_requests/", 3>>
  /\ reviews[1].results.gitlabIntegration.projectId = 7

\* The comments of the list that are on the line, in the order of the list
OnLine(cs, l) == LET Here(c) == c.line = l IN SelectSeq(cs, Here)

\* The static findings that the merge adds, in the order of the static list
RECURSIVE NewStaticFrom(_, _, _)
NewStaticFrom(aiComments, static, i) ==
  IF i > Len(static) THEN <<>>
  ELSE (IF i \in NewFindings(aiComments, static) THEN <<static[i]>> ELSE <<>>)
         \o NewStaticFrom(aiComments, static, i + 1)

\* C23: after mergeAnalysisResults, the comments on one line are the AI
\* comments on that line, in their order, followed by the static findings
\* added on that line, in their order.
C23_SameLineInsertionOrder ==
  MergeReturned /\ Has(aiAnalysisResult, "comments") =>
    LET ai    == aiAnalysisResult.comments
        added == NewStaticFrom(ai, staticAnalysisComments, 1)
    IN  \A k \in 1..Len(finalResult.comments) :
          LET l == finalResult.comments[k].line
          IN  OnLine(finalResult.comments, l) = OnLine(ai, l) \o OnLine(added, l)

\* C23 witness: a direct merge in which two AI comments and two added static
\* findings, four different comments, are all on line 5.
C23_Witness ==
  /\ entry = "merge" /\ pc = "done"
  /\ Len(aiAnalysisResult.comments) = 2 /\ Len(staticAnalysisComments) = 2
  /\ aiAnalysisResult.comments[1] # aiAnalysisResult.comments[2]
  /\ staticAnalysisComments[1] # staticAnalysisComments[2]
  /\ finalResult.comments =
       aiAnalysisResult.comments \o staticAnalysisComments
  /\ \A k \in 1..4 : finalResult.comments[k].line = 5

\* The three issues counters
IssueCounters == {"critical", "warnings", "info"}

\* C24: mergeAnalysisResults returns the result it was given with nothing
\* changed but the comments list and the three issues counters: it has the
\* same properties, the same metrics (grades and scores), improvedCode,
\* keyImprovements and issues.types, and the list of static findings is the
\* one that was passed in.
C24_MergeFrame ==
  MergeReturned /\ Has(aiAnalysisResult, "comments") =>
    /\ DOMAIN finalResult \ {"gitlabIntegration"} = DOMAIN aiAnalysisResult
    /\ \A p \in DOMAIN aiAnalysisResult \ {"comments", "issues"} :
         finalResult[p] = aiAnalysisResult[p]
    /\ Has(aiAnalysisResult, "issues") =>
         /\ DOMAIN finalResult.issues = DOMAIN aiAnalysisResult.issues
         /\ \A q \in DOMAIN aiAnalysisResult.issues \ IssueCounters :
              finalResult.issues[q] = aiAnalysisResult.issues[q]
    /\ entry = "route" => staticAnalysisComments = performBasicAnalysis(submission)

\* C24 witness: a direct merge that added a static finding to a result with a
\* comment, so that the comments and a counter did change.
C24_Witness ==
  /\ entry = "merge" /\ pc = "done"
  /\ Len(aiAnalysisResult.comments) = 1
  /\ Len(finalResult.comments) = 2
  /\ finalResult.issues.critical = aiAnalysisResult.issues.critical + 1
  /\ finalResult.metrics = AiMetrics
  /\ finalResult.issues.types = AiIssueTypes

\* The number of physical lines of a code: its line breaks, and one more line
\* when the code does not end in a line break; the empty code is one empty
\* line
PhysicalLines(code) ==
  LET breaks == Cardinality({i \in 1..Len(code) : code[i] = "\n"})
  IN  IF code = <<>> THEN 1
      ELSE IF code[Len(code)] = "\n" THEN breaks
      ELSE breaks + 1

\* C25: every finding of the Pattern Analyzer, in every language rule-set and
\* for every code, is on a line between 1 and the number of physical lines of
\* the code.
C25_FindingLinesInRange ==
  entry = "analyzer" /\ pc = "done" =>
    \A i \in 1..Len(staticAnalysisComments) :
      staticAnalysisComments[i].line \in 1..PhysicalLines(submission.code)

\* C25 witness: the Python sample behind an empty first line and before a
\* closing line break got a finding on the last of its physical lines.
C25_Witness ==
  /\ entry = "analyzer" /\ pc = "done"
  /\ submission = Body(Python, <<"\n">> \o CodePy \o <<"\n">>)
  /\ \E i \in 1..Len(staticAnalysisComments) :
       /\ staticAnalysisComments[i].line = PhysicalLines(submission.code)
       /\ staticAnalysisComments[i].line > 1

\* C27: every result of createSyntheticResultFromText has issues counters equal
\* to the counts of the comments it returns: critical the errors, warnings the
\* warnings, info the info comments and suggestions; also when no line of the
\* text qualifies and the default comment is returned.
C27_SyntheticIssuesMatchComments ==
  ExtractReturned =>
    /\ clientResult.issues.critical = CountType(clientResult.comments, {"error"})
    /\ clientResult.issues.warnings = CountType(clientResult.comments, {"warning"})
    /\ clientResult.issues.info = CountType(clientResult.comments, {"info", "suggestion"})

\* The counters agree with the comments whenever the text gave a comment of
\* its own: a line long enough, or the comment that stands for a code answer
SyntheticCountersMatchCollected ==
  ExtractReturned /\ clientResult.comments # <<DefaultSyntheticComment>> =>
    /\ clientResult.issues.critical = CountType(clientResult.comments, {"error"})
    /\ clientResult.issues.warnings = CountType(clientResult.comments, {"warning"})
    /\ clientResult.issues.info = CountType(clientResult.comments, {"info", "suggestion"})

\* The API calls issued so far
Calls == {i \in 1..Len(log) : IsCall(log[i])}

\* The models of the two provider clients
ProviderModels == {OPENAI_MODEL, FALLBACK_MODEL, HF_MODEL, FALLBACK_HF_MODEL}

CallsBounded ==
  /\ \A m \in ProviderModels : Cardinality(CallsOn(m)) <= MAX_RETRIES + 1
  /\ Cardinality(Calls) <= 2 * (MAX_RETRIES + 1)

\* C28: whatever the provider calls end in, the provider client issues at most
\* MAX_RETRIES + 1 = 3 calls per model and at most 6 calls per submission, and
\* the request comes to its end, for the OpenAI client and for the Hugging
\* Face chain alike.
C28_BoundedCallsAndTermination == []CallsBounded /\ <>(pc = "done")

\* C28 witness: the Hugging Face chain has issued three calls on the primary
\* and three on the secondary model, and has returned.
C28_Witness ==
  /\ entry = "hf" /\ pc = "done"
  /\ Cardinality(CallsOn(HF_MODEL)) = MAX_RETRIES + 1
  /\ Cardinality(CallsOn(FALLBACK_HF_MODEL)) = MAX_RETRIES + 1
  /\ Cardinality(Calls) = 6

\* Request r calls updateReviewGitlabInfo in this step: directly, or as the
\* post-review route once the comments are posted
UpdateStep(r) ==
  \/ requests[r].kind = "update" /\ requests[r].pc = "start" /\ requests'[r].pc = "done"
  \/ requests[r].kind = "post" /\ requests[r].pc = "posting" /\ requests'[r].pc = "updated"

\* The review id that request r passes to updateReviewGitlabInfo
UpdateTarget(r) ==
  IF requests[r].kind = "update" THEN requests[r].reviewId ELSE requests[r].reviewId[1]

\* The row differs from the old one in nothing but gitlabIntegration.commentIds,
\* the block being the old one or, when there was none, one made of the row's
\* own GitLab fields
OnlyCommentIdsSet(old, new) ==
  /\ DOMAIN new = DOMAIN old
  /\ \A f \in DOMAIN old \ {"results"} : new[f] = old[f]
  /\ DOMAIN new.results = DOMAIN old.results \cup {"gitlabIntegration"}
  /\ \A p \in DOMAIN old.results \ {"gitlabIntegration"} : new.results[p] = old.results[p]
  /\ LET block == new.results.gitlabIntegration
     IN  IF "gitlabIntegration" \in DOMAIN old.results
         THEN /\ DOMAIN block = DOMAIN old.results.gitlabIntegration \cup {"commentIds"}
              /\ \A q \in DOMAIN old.results.gitlabIntegration \ {"commentIds"} :
                   block[q] = old.results.gitlabIntegration[q]
         ELSE /\ DOMAIN block = {"projectId", "mergeRequestId", "commitSha", "commentIds"}
              /\ block.projectId = old.gitlabProjectId
              /\ block.mergeRequestId = old.gitlabMergeRequestId
              /\ block.commitSha = old.gitlabCommitSha

\* C26: a stored review stays stored, and the only change ever made to it is
\* updateReviewGitlabInfo setting gitlabIntegration.commentIds of its result
\* (the block being created from the review's own GitLab fields when absent):
\* comments, metrics, issues, improvedCode and every other stored review stay
\* as they are; updateReviewGitlabInfo on an unknown id returns undefined and
\* changes nothing.
C26_OnlyCommentIdsChange ==
  [][ /\ \A id \in DOMAIN reviews :
           /\ id \in DOMAIN reviews'
           /\ reviews'[id] # reviews[id] =>
                /\ OnlyCommentIdsSet(reviews[id], reviews'[id])
                /\ \A other \in DOMAIN reviews \ {id} : reviews'[other] = reviews[other]
                /\ \E r \in DOMAIN requests : UpdateStep(r) /\ UpdateTarget(r) = id
      /\ \A r \in DOMAIN requests :
           UpdateStep(r) /\ UpdateTarget(r) \notin DOMAIN reviews =>
             /\ reviews' = reviews
             /\ requests'[r].returned = <<>>
    ]_vars

\* C26 witness: of two stored reviews, the first got comment ids into the
\* block it was stored with, and the second is as it was stored.
C26_Witness ==
  /\ entry = "store"
  /\ DOMAIN reviews = {1, 2}
  /\ Has(reviews[1].results, "gitlabIntegration")
  /\ DOMAIN reviews[1].results.gitlabIntegration =
       {"projectId", "mergeRequestId", "commitSha", "reviewUrl", "commentIds"}
  /\ reviews[1].results.gitlabIntegration.commentIds = <<201>>
  /\ reviews[1].results.comments = performBasicAnalysis(reviews[1])
  /\ ~Has(reviews[2].results, "gitlabIntegration")

\* An updateReviewGitlabInfo with an id that no review has returned undefined
UnknownIdUpdateReturned ==
  \E r \in DOMAIN requests :
    /\ requests[r].kind = "update" /\ requests[r].pc = "done"
    /\ requests[r].reviewId \notin DOMAIN reviews
    /\ requests[r].returned = <<>>

\* The ids that the post-review route can record for the comments: those that
\* postCodeReviewComments returns on some diff
RouteCommentIds(comments) == {postCodeReviewComments(comments, d) : d \in GitlabDiffs}

\* Request r, a post-review request, leaves the position `at` in this step
PostLeaves(r, at) ==
  requests[r].kind = "post" /\ requests[r].pc = at /\ requests'[r].pc # at

\* Request r is answered in this step with the given status, and neither the
\* stored reviews nor the calls made to GitLab change
RejectedWith(r, status) ==
  /\ requests'[r].pc = "done"
  /\ requests'[r].response.status = status
  /\ reviews' = reviews
  /\ log' = log

\* The steps of a post-review request, check by check
PostReviewStep(r) ==
  LET req == requests[r]
      id  == ParseInt(req.param)
  IN  /\ PostLeaves(r, "start") =>
           IF ~(Len(req.token) = 1 /\ req.token[1] # "") THEN RejectedWith(r, 401)
           ELSE IF id = <<>> THEN RejectedWith(r, 400)
           ELSE /\ requests'[r].pc = "got"
                /\ requests'[r].response = NoResponse
                /\ requests'[r].review = <<>> <=> id[1] \notin DOMAIN reviews
                /\ reviews' = reviews /\ log' = log
      /\ PostLeaves(r, "got") =>
           IF req.review = <<>> THEN RejectedWith(r, 404)
           ELSE IF \/ Falsy(reviews[id[1]].gitlabProjectId)
                   \/ Falsy(reviews[id[1]].gitlabMergeRequestId)
           THEN RejectedWith(r, 400)
           ELSE /\ requests'[r].pc = "posting"
                /\ requests'[r].response = NoResponse
                /\ reviews' = reviews
                /\ log' = Append(log, GitlabCallEvent(reviews[id[1]].gitlabProjectId[1],
                                                      reviews[id[1]].gitlabMergeRequestId[1]))
      /\ PostLeaves(r, "posting") =>
           \/ /\ requests'[r].pc = "done"
              /\ requests'[r].response.status = 500
              /\ reviews' = reviews
              /\ log' = log
           \/ /\ requests'[r].pc = "updated"
              /\ requests'[r].response = NoResponse
              /\ reviews'[id[1]].results.gitlabIntegration.commentIds
                   \in RouteCommentIds(reviews[id[1]].results.comments)
              /\ requests'[r].commentCount =
                   Len(reviews'[id[1]].results.gitlabIntegration.commentIds)
              /\ log' = log
      /\ PostLeaves(r, "updated") =>
           /\ requests'[r].pc = "done"
           /\ requests'[r].response.status = 200
           /\ requests'[r].response.commentCount = req.commentCount
           /\ reviews' = reviews
           /\ log' = log

\* A stored review holds the ids of the route only when a post-review request
\* for it came back from a GitLab call and was not answered with a failure
RecordedOnlyAfterPosting ==
  entry = "store" =>
    \A id \in DOMAIN reviews :
      ( /\ Has(reviews[id].results, "gitlabIntegration")
        /\ Has(reviews[id].results.gitlabIntegration, "commentIds")
        /\ reviews[id].results.gitlabIntegration.commentIds
             \in RouteCommentIds(reviews[id].results.comments) )
      => /\ \E r \in DOMAIN requests :
              /\ requests[r].kind = "post"
              /\ ParseInt(requests[r].param) = <<id>>
              /\ \/ requests[r].pc = "updated"
                 \/ requests[r].pc = "done" /\ requests[r].response.status = 200
         /\ \E i \in 1..Len(log) :
              log[i] = GitlabCallEvent(reviews[id].gitlabProjectId[1],
                                       reviews[id].gitlabMergeRequestId[1])

\* A call to GitLab is made by a post-review request that passed all four
\* checks, and by nothing else
GitlabCalledOnlyAfterChecks ==
  log' # log =>
    \E r \in DOMAIN requests :
      /\ PostLeaves(r, "got") /\ requests'[r].pc = "posting"
      /\ Len(requests[r].token) = 1 /\ requests[r].token[1] # ""
      /\ ParseInt(requests[r].param) # <<>>
      /\ ParseInt(requests[r].param)[1] \in DOMAIN reviews

\* C29: POST /api/gitlab/post-review/:reviewId checks in the order token (401),
\* id not a number (400), review unknown (404), review without project or
\* merge-request id (400), each rejection leaving the stored reviews alone and
\* making no GitLab call; a failed posting is answered with 500 and leaves the
\* stored reviews alone; comment ids are recorded only once
\* postCodeReviewComments has returned.
C29_RecordOnlyAfterSuccessfulPosting ==
  /\ []RecordedOnlyAfterPosting
  /\ [][ entry = "store" =>
           /\ \A r \in DOMAIN requests : PostReviewStep(r)
           /\ GitlabCalledOnlyAfterChecks ]_vars

\* C29 witness: the posting for a stored review failed and was answered with
\* 500, the review holding no comment ids, while another request for the same
\* review was rejected with 401 for its empty token header.
C29_Witness ==
  /\ entry = "store"
  /\ \E r1, r2 \in DOMAIN requests :
       /\ requests[r1].kind = "post" /\ requests[r1].pc = "done"
       /\ requests[r1].response.status = 500
       /\ ParseInt(requests[r1].param) = <<1>>
       /\ 1 \in DOMAIN reviews
       /\ ~Has(reviews[1].results.gitlabIntegration, "commentIds")
       /\ Len(log) = 1
       /\ requests[r2].kind = "post" /\ requests[r2].pc = "done"
       /\ requests[r2].token = <<"">> /\ ParseInt(requests[r2].param) = <<1>>
       /\ requests[r2].response.status = 401

\* A post-review request whose id parameter starts with digits was taken as a
\* request for review 1 and answered with 200
DigitsPrefixAccepted ==
  \E r \in DOMAIN requests :
    /\ requests[r].kind = "post" /\ requests[r].param = <<"1", "a", "b", "c">>
    /\ requests[r].pc = "done" /\ requests[r].response.status = 200
    /\ reviews[1].results.gitlabIntegration.commentIds
         = GitlabIds(1 + Len(reviews[1].results.comments))
    /\ requests[r].response.commentCount = 1 + Len(reviews[1].results.comments)
    /\ Len(reviews[1].results.comments) = 3


\* Request r, a POST /api/review, calls storage.createReview in this step
CreateStep(r) ==
  requests[r].kind = "review" /\ requests[r].pc = "analyzed" /\ requests'[r].pc = "stored"

\* The result that request r passes to createReview
PassedResult(r) ==
  WithGitlab(mergeAnalysisResults(requests[r].aiAnalysisResult, requests[r].staticAnalysisComments),
             requests[r].body)

\* The row that createReview makes for request r under the id
CreatedRow(r, id) == NewReview(id, requests[r].body, PassedResult(r))

\* A createReview takes an id above every id in use, 1 when there is none,
\* adds its row under that id and leaves every other row as it is
CreateAssignsFreshId(r) ==
  CreateStep(r) =>
    LET id == requests'[r].review[1]
    IN  /\ \A old \in DOMAIN reviews : id > old
        /\ DOMAIN reviews = {} => id = 1
        /\ id = reviewIdCounter
        /\ reviewIdCounter' > id
        /\ DOMAIN reviews' = DOMAIN reviews \cup {id}
        /\ \A old \in DOMAIN reviews : reviews'[old] = reviews[old]
        /\ getReview(reviews', id) = <<CreatedRow(r, id)>>

\* The ids of the requests that have stored their review are distinct, and
\* getReview gives each of them its own row: the id, the submission and the
\* result that it passed in, comment ids apart that updateReviewGitlabInfo
\* has set on that result since
StoredReviewsKept ==
  entry = "store" =>
    /\ \A id \in DOMAIN reviews : id >= 1 /\ id < reviewIdCounter /\ reviews[id].id = id
    /\ \A r \in DOMAIN requests :
         (requests[r].kind = "review" /\ requests[r].pc \in {"stored", "done"}) =>
           LET id  == requests[r].review[1]
               got == getReview(reviews, id)
           IN  /\ got # <<>>
               /\ \/ got[1] = CreatedRow(r, id)
                  \/ OnlyCommentIdsSet(CreatedRow(r, id), got[1])
               /\ \A q \in DOMAIN requests \ {r} :
                    (requests[q].kind = "review" /\ requests[q].pc \in {"stored", "done"}) =>
                      requests[q].review[1] # id

\* C30: under any interleaving of the requests, every createReview assigns an
\* id greater than every id assigned before, the first being 1; ids are
\* unique, no createReview overwrites a stored review, and getReview(id)
\* returns the review created with that id, with the result that was passed
\* in.
C30_FreshIdsAndKeptReviews ==
  /\ []StoredReviewsKept
  /\ [][ entry = "store" => \A r \in DOMAIN requests : CreateAssignsFreshId(r) ]_vars

\* C30 witness: the second request stored its review first and got the id 1,
\* the first request got the id 2 after it, an update put comment ids on
\* review 1 in between or afterwards, and both rows are those of their
\* requests.
C30_Witness ==
  /\ entry = "store"
  /\ DOMAIN reviews = {1, 2}
  /\ requests[2].kind = "review" /\ requests[2].review = <<1>>
  /\ requests[1].kind = "review" /\ requests[1].review = <<2>>
  /\ requests[1].body # requests[2].body
  /\ reviews[1].code = requests[2].body.code
  /\ reviews[2].code = requests[1].body.code
  /\ Has(reviews[1].results, "gitlabIntegration")
  /\ Has(reviews[1].results.gitlabIntegration, "commentIds")
  /\ reviews[1].results.gitlabIntegration.commentIds = <<201>>
  /\ reviewIdCounter = 3

\* A review whose comments name an empty file, a file and no file was posted
\* on a diff without a file: the summary comment and the comment with the
\* file got ids
OnlyNamedFilePosted ==
  \E r \in DOMAIN requests :
    /\ requests[r].kind = "post" /\ requests[r].pc = "done"
    /\ requests[r].response.status = 200
    /\ requests[r].response.commentCount = 2
    /\ \E c \in 1..Len(reviews[1].results.comments) :
         /\ Has(reviews[1].results.comments[c], "file")
         /\ reviews[1].results.comments[c].file = ""
    /\ Has(reviews[1].results.gitlabIntegration, "commentIds")
    /\ reviews[1].results.gitlabIntegration.commentIds = GitlabIds(2)

=============================================================================
